---- MODULE Spec2Model ----
(***************************************************************************)
(* RustV: a single-hart RV64 interpreter.  This module models the hart     *)
(* (src/src/cpu/cpu.rs), its CSR file (src/src/csr.rs), the trap taxonomy  *)
(* (src/src/exept.rs) and the driver loop run_cpu                          *)
(* (src/src/cpu/test_framework.rs).                                        *)
(*                                                                         *)
(* A u64 is modelled exactly, as the set of its one-bits (a subset of      *)
(* 0..63): and/or/not are set operations, shifts move the elements, and    *)
(* addition is a carry chain that drops the carry out of bit 63.           *)
(***************************************************************************)
EXTENDS Integers, FiniteSets, Sequences, TLC

(***************************************************************************)
(* Bounds of the model.                                                    *)
(***************************************************************************)
\* the largest tick budget handed to run_cpu
MaxClock == 1

(***************************************************************************)
(* 64-bit words.                                                           *)
(***************************************************************************)
Bits == 0..63

\* the word holding the natural number n (n < 2^31)
W(n) == {i \in 0..30 : (n \div (2 ^ i)) % 2 = 1}

\* the natural number a word holds (the word has no bit above 30)
RECURSIVE Val(_)
Val(w) == IF w = {} THEN 0
          ELSE LET i == CHOOSE j \in w : TRUE IN (2 ^ i) + Val(w \ {i})

And(a, b) == a \cap b
Or(a, b) == a \cup b
\* a & !b
AndNot(a, b) == a \ b
Shl(a, k) == {i + k : i \in {j \in a : j + k <= 63}}
Shr(a, k) == {i - k : i \in {j \in a : j >= k}}

\* the carry into bit i of a + b
Carry(a, b, i) ==
    \E j \in {k \in a \cap b : k < i} :
        \A k \in (j + 1)..(i - 1) : k \in a \/ k \in b

\* u64::wrapping_add
Add(a, b) ==
    {i \in Bits : ((i \in a) # (i \in b)) # Carry(a, b, i)}

\* a < b as unsigned 64-bit numbers
Lt(a, b) == \E i \in b \ a : \A j \in (i + 1)..63 : (j \in a) <=> (j \in b)
Le(a, b) == a = b \/ Lt(a, b)

(***************************************************************************)
(* src/src/param.rs                                                        *)
(***************************************************************************)
DRAM_SIZE == {27}
DRAM_BASE == {31}
\* DRAM_SIZE + DRAM_BASE - 1
DRAM_END == {31} \cup 0..26
UART_BASE == {28}
UART_SIZE == {8}
UART_END == {28} \cup 0..7
UART_IRQ == 10

(***************************************************************************)
(* src/src/csr.rs: addresses and masks                                     *)
(***************************************************************************)
MSTATUS == 768
MEDELEG == 770
MIDELEG == 771
MIE == 772
MTVEC == 773
MSCRATCH == 832
MEPC == 833
MCAUSE == 834
MTVAL == 835
MIP == 836
SSTATUS == 256
SIE == 260
STVEC == 261
SEPC == 321
SCAUSE == 322
STVAL == 323
SIP == 324
SATP == 384

MASK_PPN == 0..43
MASK_SIE == {1}
MASK_MIE == {3}
MASK_SPIE == {5}
MASK_UBE == {6}
MASK_MPIE == {7}
MASK_SPP == {8}
MASK_MPP == {11, 12}
MASK_FS == {13, 14}
MASK_XS == {15, 16}
MASK_MPRV == {17}
MASK_SUM == {18}
MASK_MXR == {19}
MASK_UXL == {32, 33}
MASK_SD == {63}
MASK_SSTATUS ==
    MASK_SIE \cup MASK_SPIE \cup MASK_UBE \cup MASK_SPP \cup MASK_FS
        \cup MASK_XS \cup MASK_SUM \cup MASK_MXR \cup MASK_UXL \cup MASK_SD

MASK_SSIP == {1}
MASK_MSIP == {3}
MASK_STIP == {5}
MASK_MTIP == {7}
MASK_SEIP == {9}
MASK_MEIP == {11}

\* The CSR file is csrs: [u64; 4096]; the model keeps the slots its
\* instructions and trap handlers address.
CsrAddrs ==
    {MSTATUS, MEDELEG, MIDELEG, MIE, MTVEC, MSCRATCH, MEPC, MCAUSE, MTVAL, MIP,
     STVEC, SEPC, SCAUSE, STVAL, SATP}

\* Csr::load
CsrLoad(csrs, addr) ==
    CASE addr = SIE -> And(csrs[MIE], csrs[MIDELEG])
      [] addr = SIP -> And(csrs[MIP], csrs[MIDELEG])
      [] addr = SSTATUS -> And(csrs[MSTATUS], MASK_SSTATUS)
      [] OTHER -> csrs[addr]

\* a store that writes the whole word through the SSTATUS and SIE views
CsrStoreUnmasked(csrs, addr, value) ==
    CASE addr = SIE -> [csrs EXCEPT ![MIE] = value]
      [] addr = SIP ->
            [csrs EXCEPT ![MIP] =
                Or(AndNot(csrs[MIE], csrs[MIDELEG]), And(value, csrs[MIDELEG]))]
      [] addr = SSTATUS -> [csrs EXCEPT ![MSTATUS] = value]
      [] OTHER -> [csrs EXCEPT ![addr] = value]

\* Csr::store
CsrStore(csrs, addr, value) ==
    CASE addr = SIE ->
            [csrs EXCEPT ![MIE] =
                Or(AndNot(csrs[MIE], csrs[MIDELEG]), And(value, csrs[MIDELEG]))]
      [] addr = SIP ->
            [csrs EXCEPT ![MIP] =
                Or(AndNot(csrs[MIE], csrs[MIDELEG]), And(value, csrs[MIDELEG]))]
      [] addr = SSTATUS ->
            [csrs EXCEPT ![MSTATUS] =
                Or(AndNot(csrs[MSTATUS], MASK_SSTATUS), And(value, MASK_SSTATUS))]
      [] OTHER -> [csrs EXCEPT ![addr] = value]

\* u64::wrapping_shr(cause as u32) & 1 == 1, for cause < 64
BitSet(word, cause) == (cause % 64) \in word

\* Csr::is_medelegated
is_medelegated(csrs, cause) == BitSet(csrs[MEDELEG], cause)

\* Csr::is_midelegated
is_midelegated(csrs, cause) == BitSet(csrs[MIDELEG], cause)

(***************************************************************************)
(* src/src/exept.rs                                                        *)
(***************************************************************************)
ExceptionKinds ==
    {"InstructionAddrMisaligned", "InstructionAccessFault", "IllegalInstruction",
     "Breakpoint", "LoadAccessMisaligned", "LoadAccessFault",
     "StoreAMOAddrMisaligned", "StoreAMOAccessFault", "EnvironmentCallFromUMode",
     "EnvironmentCallFromSMode", "EnvironmentCallFromMMode",
     "InstructionPageFault", "LoadPageFault", "StoreAMOPageFault"}

\* an Exception value: the variant and the u64 it carries
Exception(kind, v) == [kind |-> kind, val |-> v]

\* Exception::value
ExceptionValue(e) == e.val

\* Exception::code
ExceptionCode(e) ==
    CASE e.kind = "InstructionAddrMisaligned" -> 0
      [] e.kind = "InstructionAccessFault" -> 1
      [] e.kind = "IllegalInstruction" -> 2
      [] e.kind = "Breakpoint" -> 3
      [] e.kind = "LoadAccessMisaligned" -> 4
      [] e.kind = "LoadAccessFault" -> 5
      [] e.kind = "StoreAMOAddrMisaligned" -> 6
      [] e.kind = "StoreAMOAccessFault" -> 7
      [] e.kind = "EnvironmentCallFromUMode" -> 8
      [] e.kind = "EnvironmentCallFromSMode" -> 9
      [] e.kind = "EnvironmentCallFromMMode" -> 11
      [] e.kind = "InstructionPageFault" -> 12
      [] e.kind = "LoadPageFault" -> 13
      [] e.kind = "StoreAMOPageFault" -> 14

\* Exception::is_fatal
is_fatal(e) ==
    e.kind \in {"InstructionAddrMisaligned", "InstructionAccessFault",
                "LoadAccessFault", "StoreAMOAddrMisaligned",
                "StoreAMOAccessFault", "IllegalInstruction"}

(***************************************************************************)
(* Interrupt kinds.  The enum lives in interrupt/interrupt.rs, which is    *)
(* not among the sources; its variants are the ones named at               *)
(* cpu.rs:864-869 and its codes are the standard RISC-V cause numbers      *)
(* (the MIP bit position of each kind).                                    *)
(***************************************************************************)
InterruptKinds ==
    {"MachineExternalInterrupt", "MachineSoftwareInterrupt",
     "MachineTimerInterrupt", "SupervisorExternalInterrupt",
     "SupervisorSoftwareInterrupt", "SupervisorTimerInterrupt"}

\* Interrupt::code
InterruptCode(i) ==
    CASE i = "SupervisorSoftwareInterrupt" -> 1
      [] i = "MachineSoftwareInterrupt" -> 3
      [] i = "SupervisorTimerInterrupt" -> 5
      [] i = "MachineTimerInterrupt" -> 7
      [] i = "SupervisorExternalInterrupt" -> 9
      [] i = "MachineExternalInterrupt" -> 11

\* VIRTIO_IRQ and PAGE_SIZE are imported from param.rs at cpu.rs:10-13;
\* their values are the ones the specification gives.
VIRTIO_IRQ == 1
PAGE_SIZE_LOG2 == 12

(***************************************************************************)
(* src/src/cpu/cpu.rs: modes, decoding                                     *)
(***************************************************************************)
User == 0
Supervisor == 1
Machine == 3

\* the unsigned field of `width` bits of inst that starts at bit lo
Field(inst, lo, width) == Val(And(Shr(inst, lo), 0..(width - 1)))

\* decode_r: (funct7, rs2, rs1, funct3, rd, opcode)
decode_r(inst) ==
    [funct7 |-> Field(inst, 25, 7),
     rs2 |-> Field(inst, 20, 5),
     rs1 |-> Field(inst, 15, 5),
     funct3 |-> Field(inst, 12, 3),
     rd |-> Field(inst, 7, 5),
     opcode |-> Field(inst, 0, 7)]

\* `v as iN as i64 as u64`: the low n bits of v, sign-extended to 64 bits
SignExtend(v, n) ==
    And(v, 0..(n - 1)) \cup (IF (n - 1) \in v THEN n..63 ELSE {})

\* get_i_imm: ((inst & I_IMMEDIATE) as i32 as i64 >> 20) as u64
get_i_imm(inst) ==
    Shr(And(inst, 20..31), 20) \cup (IF 31 \in inst THEN 12..63 ELSE {})

\* get_s_imm
get_s_imm(inst) ==
    Or(Shr(And(inst, 25..31), 20) \cup (IF 31 \in inst THEN 12..63 ELSE {}),
       And(Shr(inst, 7), 0..4))

\* get_j_imm
get_j_imm(inst) ==
    (IF 31 \in inst THEN 20..63 ELSE {})
        \cup And(inst, 12..19)
        \cup And(Shr(inst, 9), {11})
        \cup And(Shr(inst, 20), 1..10)

\* get_b_imm
get_b_imm(inst) ==
    (IF 31 \in inst THEN 12..63 ELSE {})
        \cup Shl(And(inst, {7}), 4)
        \cup And(Shr(inst, 20), 5..10)
        \cup And(Shr(inst, 7), 1..4)

\* the opcodes Cpu::execute has an arm for
KnownOpcodes == {3, 15, 19, 23, 27, 35, 47, 51, 55, 59, 99, 103, 111, 115}

\* the opcodes whose arm this model translates
ModelledOpcodes == {3, 15, 19, 27, 35, 47, 51, 59, 99, 103, 111, 115}

(***************************************************************************)
(* The bus and the memory behind it.  The contents of guest memory (the    *)
(* guest image, the page tables) are the environment's: a successful read  *)
(* returns a word the environment picks.  The last bytes of DRAM are kept  *)
(* byte by byte.  The address decoding, the size tests and the indexing    *)
(* are the code's.                                                         *)
(***************************************************************************)
\* The bounds of the CLINT and PLIC windows are imported from param.rs
\* (bus.rs:6), which does not hold them: the bases are the specification's
\* (0x0200_0000, 0x0C00_0000), the sizes the usual 0x10000 and 0x400_0000,
\* and the ends BASE + SIZE - 1 as for DRAM and the UART.
CLINT_BASE == {25}
CLINT_END == {25} \cup 0..15
PLIC_BASE == {26, 27}
PLIC_END == 0..27

\* Bus::load / Bus::store: the arm of the match an address takes.  The
\* CLINT, PLIC and VIRTIO arms come first in the code, with inclusive
\* bounds; the VIRTIO device is not in the source and no address of this
\* model lies at the base the specification gives it (0x1000_1000).
BusRegion(addr) ==
    CASE Le(CLINT_BASE, addr) /\ Le(addr, CLINT_END) -> "clint"
      [] Le(PLIC_BASE, addr) /\ Le(addr, PLIC_END) -> "plic"
      [] Le(DRAM_BASE, addr) /\ Lt(addr, DRAM_END) -> "dram"
      [] Le(UART_BASE, addr) /\ Lt(addr, UART_END) -> "uart"
      [] Le({12}, addr) /\ Lt(addr, 0..15) -> "static"
      [] OTHER -> "none"

Ok(v) == [tag |-> "Ok", v |-> v]
Err(e) == [tag |-> "Err", e |-> e]
\* the process aborts (an index out of bounds, an arithmetic overflow)
Panic == [tag |-> "Panic"]

\* u64::wrapping_sub
Sub(a, b) == Add(a, Add(Bits \ b, {0}))

\* The bytes of Dram::dram the model keeps: the last 8 of the array.  Every
\* other byte (the guest image, the page tables, the stack below) is the
\* environment's.
DramWindow == {Val(DRAM_SIZE) - k : k \in 1..8}

\* index .. index + bytes - 1 lie in the array
InDram(index, bytes) ==
    /\ Lt(index, DRAM_SIZE)
    /\ Val(index) + bytes - 1 < Val(DRAM_SIZE)

\* Dram::load_little_endian: self.dram[index + i] aborts on an index outside
\* the array; `words` is what the bytes the model does not keep may hold
load_little_endian(d, index, bytes, words) ==
    IF ~InDram(index, bytes) THEN {Panic}
    ELSE IF \A i \in 0..(bytes - 1) : Val(index) + i \in DramWindow
    THEN {Ok(UNION {Shl(W(d.data[Val(index) + i]), 8 * i) : i \in 0..(bytes - 1)})}
    ELSE {Ok(v) : v \in words}

\* Dram::load
DramLoad(d, addr, size, words) ==
    IF size \notin {8, 16, 24, 32}
    THEN {Err(Exception("LoadAccessFault", W(size)))}
    ELSE load_little_endian(d, Sub(addr, DRAM_BASE), size \div 8, words)

\* Dram::store_little_endian: the bytes are written in order, up to the first
\* index outside the array
store_little_endian(d, index, bytes, value) ==
    IF ~Lt(index, DRAM_SIZE) THEN d
    ELSE [d EXCEPT !.data =
            [k \in DramWindow |->
                IF k - Val(index) \in 0..(bytes - 1)
                THEN Val(And(Shr(value, 8 * (k - Val(index))), 0..7))
                ELSE d.data[k]]]

\* Dram::store: the result and the Dram the call leaves
DramStore(d, addr, size, value) ==
    LET index == Sub(addr, DRAM_BASE) IN
    IF size \notin {8, 16, 24, 32}
    THEN [r |-> Err(Exception("StoreAMOAccessFault", W(size))), dram |-> d]
    ELSE [r |-> IF InDram(index, size \div 8) THEN Ok({}) ELSE Panic,
          dram |-> store_little_endian(d, index, size \div 8, value)]

\* Uart::load without the size test
UartLoadUnsized(u, addr, size, words) ==
    LET index == Sub(addr, UART_BASE) IN
    CASE index = {} ->
            {[r |-> Ok(W(u.rhr)), uart |-> [u EXCEPT !.lsr = @ \ {0}],
              notify |-> TRUE]}
      [] index = {0, 2} -> {[r |-> Ok(u.lsr), uart |-> u, notify |-> FALSE]}
      [] OTHER -> {[r |-> Ok(And(v, 0..7)), uart |-> u, notify |-> FALSE] : v \in words}

\* Uart::load without cvar.notify_one()
UartLoadNoNotify(u, addr, size, words) ==
    LET index == Sub(addr, UART_BASE) IN
    CASE size # 8 ->
            {[r |-> Err(Exception("LoadAccessFault", addr)), uart |-> u,
              notify |-> FALSE]}
      [] size = 8 /\ index = {} ->
            {[r |-> Ok(W(u.rhr)), uart |-> [u EXCEPT !.lsr = @ \ {0}],
              notify |-> FALSE]}
      [] size = 8 /\ index = {0, 2} ->
            {[r |-> Ok(u.lsr), uart |-> u, notify |-> FALSE]}
      [] OTHER -> {[r |-> Ok(And(v, 0..7)), uart |-> u, notify |-> FALSE] : v \in words}

\* Uart::load: a read of RHR clears LSR.RX; LSR reads TX | RX; the other
\* registers are not kept and read as the environment's
UartLoad(u, addr, size, words) ==
    LET index == Sub(addr, UART_BASE) IN
    CASE size # 8 ->
            {[r |-> Err(Exception("LoadAccessFault", addr)), uart |-> u,
              notify |-> FALSE]}
      [] size = 8 /\ index = {} ->
            \* UART_RHR: cvar.notify_one(), LSR &= !MASK_UART_LSR_RX
            {[r |-> Ok(W(u.rhr)), uart |-> [u EXCEPT !.lsr = @ \ {0}],
              notify |-> TRUE]}
      [] size = 8 /\ index = {0, 2} ->
            {[r |-> Ok(u.lsr), uart |-> u, notify |-> FALSE]}
      [] OTHER -> {[r |-> Ok(And(v, 0..7)), uart |-> u, notify |-> FALSE] : v \in words}

\* Uart::store: THR is printed; the byte stored to LSR is kept, the other
\* registers are not
UartStore(u, addr, size, value) ==
    LET index == Sub(addr, UART_BASE) IN
    CASE size # 8 -> [r |-> Err(Exception("StoreAMOAccessFault", addr)), uart |-> u]
      [] size = 8 /\ index = {0, 2} ->
            [r |-> Ok({}), uart |-> [u EXCEPT !.lsr = And(value, 0..7)]]
      [] OTHER -> [r |-> Ok({}), uart |-> u]

\* The register addresses of the CLINT and the PLIC are imported from
\* param.rs (clint.rs:3, plic.rs:3), which does not hold them; the values
\* are the usual ones at the bases the specification gives.
CLINT_MTIMECMP == W(33570816)
CLINT_MTIME == W(33603576)
PLIC_PENDING == W(201330688)
PLIC_SENABLE == W(201334912)
PLIC_SPRIORITY == W(203427840)
PLIC_SCLAIM == W(203427844)

\* Clint::load
ClintLoad(cl, addr, size) ==
    CASE size # 64 -> Err(Exception("LoadAccessFault", addr))
      [] size = 64 /\ addr = CLINT_MTIME -> Ok(cl.mtime)
      [] size = 64 /\ addr = CLINT_MTIMECMP -> Ok(cl.mtimecmp)
      [] OTHER -> Ok({})

\* Clint::store
ClintStore(cl, addr, size, value) ==
    CASE size # 64 -> [r |-> Err(Exception("StoreAMOAccessFault", addr)), clint |-> cl]
      [] size = 64 /\ addr = CLINT_MTIME ->
            [r |-> Ok({}), clint |-> [cl EXCEPT !.mtime = value]]
      [] size = 64 /\ addr = CLINT_MTIMECMP ->
            [r |-> Ok({}), clint |-> [cl EXCEPT !.mtimecmp = value]]
      [] OTHER -> [r |-> Ok({}), clint |-> cl]

\* Plic::load
PlicLoad(pl, addr, size) ==
    CASE size # 32 -> Err(Exception("LoadAccessFault", addr))
      [] size = 32 /\ addr = PLIC_PENDING -> Ok(pl.pending)
      [] size = 32 /\ addr = PLIC_SENABLE -> Ok(pl.senable)
      [] size = 32 /\ addr = PLIC_SPRIORITY -> Ok(pl.spriority)
      [] size = 32 /\ addr = PLIC_SCLAIM -> Ok(pl.sclaim)
      [] OTHER -> Ok({})

\* Plic::store
PlicStore(pl, addr, size, value) ==
    CASE size # 32 -> [r |-> Err(Exception("StoreAMOAccessFault", addr)), plic |-> pl]
      [] size = 32 /\ addr = PLIC_PENDING ->
            [r |-> Ok({}), plic |-> [pl EXCEPT !.pending = value]]
      [] size = 32 /\ addr = PLIC_SENABLE ->
            [r |-> Ok({}), plic |-> [pl EXCEPT !.senable = value]]
      [] size = 32 /\ addr = PLIC_SPRIORITY ->
            [r |-> Ok({}), plic |-> [pl EXCEPT !.spriority = value]]
      [] size = 32 /\ addr = PLIC_SCLAIM ->
            [r |-> Ok({}), plic |-> [pl EXCEPT !.sclaim = value]]
      [] OTHER -> [r |-> Ok({}), plic |-> pl]

\* Bus::load(addr, size): every result the call can have, each with the bus
\* it leaves
BusLoad(bus, addr, size, words) ==
    CASE BusRegion(addr) = "clint" ->
            {[r |-> ClintLoad(bus.clint, addr, size), bus |-> bus]}
      [] BusRegion(addr) = "plic" ->
            {[r |-> PlicLoad(bus.plic, addr, size), bus |-> bus]}
      [] BusRegion(addr) = "dram" ->
            {[r |-> x, bus |-> bus] : x \in DramLoad(bus.dram, addr, size, words)}
      [] BusRegion(addr) = "uart" ->
            {[r |-> x.r, bus |-> [bus EXCEPT !.uart = x.uart]]
             : x \in UartLoad(bus.uart, addr, size, words)}
      [] BusRegion(addr) = "static" ->
            {[r |-> x, bus |-> bus]
             : x \in DramLoad(bus.dram, Add(addr, DRAM_BASE), size, words)}
      [] OTHER -> {[r |-> Err(Exception("LoadAccessFault", addr)), bus |-> bus]}

\* Bus::store(addr, size, value): the result and the bus the call leaves
BusStore(bus, addr, size, value) ==
    CASE BusRegion(addr) = "clint" ->
            LET x == ClintStore(bus.clint, addr, size, value)
            IN [r |-> x.r, bus |-> [bus EXCEPT !.clint = x.clint]]
      [] BusRegion(addr) = "plic" ->
            LET x == PlicStore(bus.plic, addr, size, value)
            IN [r |-> x.r, bus |-> [bus EXCEPT !.plic = x.plic]]
      [] BusRegion(addr) = "dram" ->
            LET x == DramStore(bus.dram, addr, size, value)
            IN [r |-> x.r, bus |-> [bus EXCEPT !.dram = x.dram]]
      [] BusRegion(addr) = "uart" ->
            LET x == UartStore(bus.uart, addr, size, value)
            IN [r |-> x.r, bus |-> [bus EXCEPT !.uart = x.uart]]
      [] BusRegion(addr) = "static" ->
            LET x == DramStore(bus.dram, Add(addr, DRAM_BASE), size, value)
            IN [r |-> x.r, bus |-> [bus EXCEPT !.dram = x.dram]]
      [] OTHER -> [r |-> Err(Exception("StoreAMOAccessFault", addr)), bus |-> bus]

\* the page fault translate raises for an access type
PageFault(access_type, addr) ==
    CASE access_type = "Instruction" -> Exception("InstructionPageFault", addr)
      [] access_type = "Load" -> Exception("LoadPageFault", addr)
      [] access_type = "Store" -> Exception("StoreAMOPageFault", addr)

\* physical pages a leaf PTE of the environment's page tables may name
WalkTargets == {DRAM_BASE, {}}

\* Cpu::translate: every result the call can have.  With paging off the
\* address is returned unchanged.  With paging on the walk reads PTEs from
\* guest memory (cpu.rs:908), the first at page_table + vpn[2] * 8: where the
\* bus maps no region there the read's access fault leaves through `?`;
\* where it does, the environment's page tables end the walk in the page
\* fault of the access type or in a leaf.  (The 64-bit PTE read is taken to
\* return the entry, as the walk needs; Dram::load of src/src/dram.rs, DramLoad
\* above, returns an access fault for every 64-bit read.)
translate(c, addr, access_type) ==
    IF ~c.enable_paging THEN {Ok(addr)}
    ELSE LET pte_addr == Add(c.page_table, Shl(And(Shr(addr, 30), 0..8), 3)) IN
         IF BusRegion(pte_addr) = "none"
         THEN {Err(Exception("LoadAccessFault", pte_addr))}
         ELSE {Err(PageFault(access_type, addr))}
              \cup {Ok(Or(pa, And(addr, 0..11))) : pa \in WalkTargets}

\* Cpu::load: translate, then Bus::load
CpuLoad(c, addr, size, words) ==
    UNION {IF t.tag = "Err" THEN {[r |-> t, bus |-> c.bus]}
           ELSE BusLoad(c.bus, t.v, size, words)
           : t \in translate(c, addr, "Load")}

\* Cpu::store: translate, then Bus::store
CpuStore(c, addr, size, value) ==
    {IF t.tag = "Err" THEN [r |-> t, bus |-> c.bus]
     ELSE BusStore(c.bus, t.v, size, value)
     : t \in translate(c, addr, "Store")}

\* Cpu::fetch: translate the pc, read 32 bits, and turn a bus error into
\* InstructionAccessFault(pc); a 32-bit read leaves the bus as it is
fetch(c, words) ==
    UNION {IF t.tag = "Err" THEN {t}
           ELSE {IF b.r.tag = "Err"
                 THEN Err(Exception("InstructionAccessFault", c.pc))
                 ELSE b.r
                 : b \in BusLoad(c.bus, t.v, 32, words)}
           : t \in translate(c, c.pc, "Instruction")}

(***************************************************************************)
(* src/src/cpu/cpu.rs: Cpu                                                 *)
(***************************************************************************)
\* fancy names for registers
RVABI ==
    <<"zero", "ra", "sp", "gp", "tp", "t0", "t1", "t2", "s0", "s1", "a0", "a1",
      "a2", "a3", "a4", "a5", "a6", "a7", "s2", "s3", "s4", "s5", "s6", "s7",
      "s8", "s9", "s10", "s11", "t3", "t4", "t5", "t6">>

\* the names "x0".."x31"
XNames ==
    <<"x0", "x1", "x2", "x3", "x4", "x5", "x6", "x7", "x8", "x9", "x10", "x11",
      "x12", "x13", "x14", "x15", "x16", "x17", "x18", "x19", "x20", "x21",
      "x22", "x23", "x24", "x25", "x26", "x27", "x28", "x29", "x30", "x31">>

\* Cpu::reg for the integer registers and the pc: an ABI name first, then
\* "pc", "fp" and "x<i>"
reg(c, r) ==
    IF \E i \in 1..32 : RVABI[i] = r
    THEN c.regs[(CHOOSE i \in 1..32 : RVABI[i] = r) - 1]
    ELSE CASE r = "pc" -> c.pc
           [] r = "fp" -> c.regs[8]
           [] \E i \in 1..32 : XNames[i] = r ->
                c.regs[(CHOOSE i \in 1..32 : XNames[i] = r) - 1]

\* update_paging that takes the top bit of SATP for the mode
update_paging_top_bit(c, csr_addr) ==
    IF csr_addr # SATP THEN c
    ELSE LET satp == CsrLoad(c.csr, SATP) IN
         [c EXCEPT !.page_table = Shl(And(satp, MASK_PPN), PAGE_SIZE_LOG2),
                   !.enable_paging = (63 \in satp)]

\* Cpu::update_paging
update_paging(c, csr_addr) ==
    IF csr_addr # SATP THEN c
    ELSE LET satp == CsrLoad(c.csr, SATP) IN
         [c EXCEPT !.page_table = Shl(And(satp, MASK_PPN), PAGE_SIZE_LOG2),
                   !.enable_paging = (Shr(satp, 60) = {3})]

\* the register family a trap uses:
\* (STATUS, TVEC, CAUSE, TVAL, EPC, MASK_PIE, pie_i, MASK_IE, ie_i, MASK_PP, pp_i)
SFamily ==
    [STATUS |-> SSTATUS, TVEC |-> STVEC, CAUSE |-> SCAUSE, TVAL |-> STVAL,
     EPC |-> SEPC, MASK_PIE |-> MASK_SPIE, pie_i |-> 5, MASK_IE |-> MASK_SIE,
     ie_i |-> 1, MASK_PP |-> MASK_SPP, pp_i |-> 8]

MFamily ==
    [STATUS |-> MSTATUS, TVEC |-> MTVEC, CAUSE |-> MCAUSE, TVAL |-> MTVAL,
     EPC |-> MEPC, MASK_PIE |-> MASK_MPIE, pie_i |-> 7, MASK_IE |-> MASK_MIE,
     ie_i |-> 3, MASK_PP |-> MASK_MPP, pp_i |-> 11]

\* trap_in_s_mode without the test of the current mode
DelegatedFromAnyMode(c, cause) == is_medelegated(c.csr, cause)

\* trap_in_s_mode of handle_exception
ExceptionInSMode(c, cause) == c.mode <= Supervisor /\ is_medelegated(c.csr, cause)

\* an interrupt delegated whatever the mode it is taken in
InterruptDelegatedFromAnyMode(c, cause) == is_midelegated(c.csr, cause)

\* trap_in_s_mode of handle_interrupt
InterruptInSMode(c, cause) == c.mode <= Supervisor /\ is_midelegated(c.csr, cause)

\* the status word on trap entry with IE left as it was
TrapStatusKeepIE(status, f, mode) ==
    LET ie == Shr(And(status, f.MASK_IE), f.ie_i)
        s1 == Or(AndNot(status, f.MASK_PIE), Shl(ie, f.pie_i))
    IN Or(AndNot(s1, f.MASK_PP), Shl(W(mode), f.pp_i))

\* a status word on trap entry that keeps IE: PIE = IE, PP = the previous mode
TrapStatusKeepIe(status, f, mode) ==
    LET ie == Shr(And(status, f.MASK_IE), f.ie_i)
        s1 == Or(AndNot(status, f.MASK_PIE), Shl(ie, f.pie_i))
    IN Or(AndNot(s1, f.MASK_PP), Shl(W(mode), f.pp_i))

\* a status word on trap entry that leaves PIE as it was: IE = 0, PP = the
\* previous mode
TrapStatusNoPie(status, f, mode) ==
    Or(AndNot(AndNot(status, f.MASK_IE), f.MASK_PP), Shl(W(mode), f.pp_i))

\* the status word on trap entry: PIE = IE, IE = 0, PP = the previous mode
TrapStatus(status, f, mode) ==
    LET ie == Shr(And(status, f.MASK_IE), f.ie_i)
        s1 == Or(AndNot(status, f.MASK_PIE), Shl(ie, f.pie_i))
        s2 == AndNot(s1, f.MASK_IE)
    IN Or(AndNot(s2, f.MASK_PP), Shl(W(mode), f.pp_i))

\* the vector word used as it is, mode bits included
ExceptionVectorUnmasked(tvec) == tvec

\* the pc an exception enters at: TVEC & !0b11
ExceptionVector(tvec) == AndNot(tvec, {0, 1})

\* Cpu::handle_exception
handle_exception(c, e) ==
    LET pc == c.pc
        mode == c.mode
        cause == ExceptionCode(e)
        trap_in_s_mode == ExceptionInSMode(c, cause)
        f == IF trap_in_s_mode THEN SFamily ELSE MFamily
        c1 == [c EXCEPT !.mode = IF trap_in_s_mode THEN Supervisor ELSE Machine,
                        !.pc = ExceptionVector(CsrLoad(c.csr, f.TVEC))]
        k1 == CsrStore(c1.csr, f.EPC, pc)
        k2 == CsrStore(k1, f.CAUSE, W(cause))
        k3 == CsrStore(k2, f.TVAL, ExceptionValue(e))
        k4 == CsrStore(k3, f.STATUS, TrapStatus(CsrLoad(k3, f.STATUS), f, mode))
    IN [c1 EXCEPT !.csr = k4]

\* the pc a vectored interrupt enters at: `tvec_base + cause << 2`, in which
\* + binds tighter than <<
VectoredPc(tvec_base, cause) == Shl(Add(tvec_base, W(cause)), 2)

\* a handle_interrupt that reads the pc for EPC after it has set the vector
handle_interrupt_late_epc(c, interrupt) ==
    LET mode == c.mode
        cause == InterruptCode(interrupt)
        trap_in_s_mode == InterruptInSMode(c, cause)
        f == IF trap_in_s_mode THEN SFamily ELSE MFamily
        c1 == [c EXCEPT !.mode = IF trap_in_s_mode THEN Supervisor ELSE Machine]
        tvec == CsrLoad(c.csr, f.TVEC)
        tvec_mode == And(tvec, {0, 1})
        tvec_base == AndNot(tvec, {0, 1})
        c2 == [c1 EXCEPT !.pc = IF tvec_mode = {} THEN tvec_base
                                ELSE VectoredPc(tvec_base, cause)]
        k1 == CsrStore(c2.csr, f.EPC, c2.pc)
        k2 == CsrStore(k1, f.CAUSE, W(cause))
        k3 == CsrStore(k2, f.TVAL, {})
        k4 == CsrStore(k3, f.STATUS, TrapStatus(CsrLoad(k3, f.STATUS), f, mode))
    IN IF tvec_mode \in {{}, {0}}
       THEN [panicked |-> FALSE, cpu |-> [c2 EXCEPT !.csr = k4]]
       ELSE [panicked |-> TRUE, cpu |-> c1]

\* Cpu::handle_interrupt.  panicked: the match on the TVEC mode reached
\* unreachable!() (TVEC mode 2 or 3), after the mode was set.
handle_interrupt(c, interrupt) ==
    LET pc == c.pc
        mode == c.mode
        cause == InterruptCode(interrupt)
        trap_in_s_mode == InterruptInSMode(c, cause)
        f == IF trap_in_s_mode THEN SFamily ELSE MFamily
        c1 == [c EXCEPT !.mode = IF trap_in_s_mode THEN Supervisor ELSE Machine]
        tvec == CsrLoad(c.csr, f.TVEC)
        tvec_mode == And(tvec, {0, 1})
        tvec_base == AndNot(tvec, {0, 1})
        c2 == [c1 EXCEPT !.pc = IF tvec_mode = {} THEN tvec_base
                                ELSE VectoredPc(tvec_base, cause)]
        k1 == CsrStore(c2.csr, f.EPC, pc)
        k2 == CsrStore(k1, f.CAUSE, W(cause))
        k3 == CsrStore(k2, f.TVAL, {})
        k4 == CsrStore(k3, f.STATUS, TrapStatus(CsrLoad(k3, f.STATUS), f, mode))
    IN IF tvec_mode \in {{}, {0}}
       THEN [panicked |-> FALSE, cpu |-> [c2 EXCEPT !.csr = k4]]
       ELSE [panicked |-> TRUE, cpu |-> c1]

\* Cpu::disk_access as the run loop sees a call that returns: one descriptor
\* chain of the virtio queue is processed; the model counts the
\* transactions.  DiskAccess translates the body of the call.
disk_access(c) == [c EXCEPT !.bus.disk_txn = @ + 1]

\* the mask test with the Supervisor case left out
InterruptsMaskedMachineOnly(c) ==
    c.mode = Machine /\ And(CsrLoad(c.csr, MSTATUS), MASK_MIE) = {}

\* the first test of check_pending_interrupt: interrupts are globally masked
InterruptsMasked(c) ==
    \/ c.mode = Machine /\ And(CsrLoad(c.csr, MSTATUS), MASK_MIE) = {}
    \/ c.mode = Supervisor /\ And(CsrLoad(c.csr, SSTATUS), MASK_SIE) = {}

\* Plic::store(PLIC_SCLAIM, 32, value) through Bus::store
StoreClaim(c, irq) == [c EXCEPT !.bus.plic.sclaim = W(irq)]

\* the devices sampled one after the other, `if` .. `if` for `if` .. `else if`
SampleDevicesBoth(c) ==
    LET u == IF c.bus.uart.interrupt
             THEN LET c1 == [c EXCEPT !.bus.uart.interrupt = FALSE]
                      c2 == StoreClaim(c1, UART_IRQ)
                  IN [c2 EXCEPT !.csr = CsrStore(c2.csr, MIP,
                                           Or(CsrLoad(c2.csr, MIP), MASK_SEIP))]
             ELSE c
    IN IF u.bus.virtio_blk.interrupt
       THEN LET c1 == [u EXCEPT !.bus.virtio_blk.interrupt = FALSE]
                c2 == StoreClaim(disk_access(c1), VIRTIO_IRQ)
            IN [c2 EXCEPT !.csr = CsrStore(c2.csr, MIP,
                                     Or(CsrLoad(c2.csr, MIP), MASK_SEIP))]
       ELSE u

\* interrupts for external devices: the UART first, else the virtio disk
SampleDevices(c) ==
    IF c.bus.uart.interrupt
    THEN LET c1 == [c EXCEPT !.bus.uart.interrupt = FALSE]
             c2 == StoreClaim(c1, UART_IRQ)
         IN [c2 EXCEPT !.csr = CsrStore(c2.csr, MIP,
                                        Or(CsrLoad(c2.csr, MIP), MASK_SEIP))]
    ELSE IF c.bus.virtio_blk.interrupt
    THEN LET c1 == [c EXCEPT !.bus.virtio_blk.interrupt = FALSE]
             c2 == StoreClaim(disk_access(c1), VIRTIO_IRQ)
         IN [c2 EXCEPT !.csr = CsrStore(c2.csr, MIP,
                                        Or(CsrLoad(c2.csr, MIP), MASK_SEIP))]
    ELSE c

\* the scan order with the two supervisor masks SSIP and STIP paired with
\* each other's interrupt
PendingOrderMispaired ==
    <<[m |-> MASK_MEIP, i |-> "MachineExternalInterrupt"],
      [m |-> MASK_MSIP, i |-> "MachineSoftwareInterrupt"],
      [m |-> MASK_MTIP, i |-> "MachineTimerInterrupt"],
      [m |-> MASK_SEIP, i |-> "SupervisorExternalInterrupt"],
      [m |-> MASK_STIP, i |-> "SupervisorSoftwareInterrupt"],
      [m |-> MASK_SSIP, i |-> "SupervisorTimerInterrupt"]>>

\* the (mask, interrupt) pairs in the order the pending bits are scanned
PendingOrder ==
    <<[m |-> MASK_MEIP, i |-> "MachineExternalInterrupt"],
      [m |-> MASK_MSIP, i |-> "MachineSoftwareInterrupt"],
      [m |-> MASK_MTIP, i |-> "MachineTimerInterrupt"],
      [m |-> MASK_SEIP, i |-> "SupervisorExternalInterrupt"],
      [m |-> MASK_SSIP, i |-> "SupervisorSoftwareInterrupt"],
      [m |-> MASK_STIP, i |-> "SupervisorTimerInterrupt"]>>

\* the scan of check_pending_interrupt: the first pair whose bit is pending
\* is returned and its MIP bit cleared
ScanPending(c) ==
    LET pending == And(CsrLoad(c.csr, MIE), CsrLoad(c.csr, MIP))
        hits == {n \in 1..Len(PendingOrder) : And(pending, PendingOrder[n].m) # {}}
    IN IF hits = {} THEN [irq |-> "None", cpu |-> c]
       ELSE LET n == CHOOSE h \in hits : \A g \in hits : h <= g
                m == PendingOrder[n].m
            IN [irq |-> PendingOrder[n].i,
                cpu |-> [c EXCEPT !.csr =
                            CsrStore(c.csr, MIP, AndNot(CsrLoad(c.csr, MIP), m))]]

\* Cpu::check_pending_interrupt
check_pending_interrupt(c) ==
    IF InterruptsMasked(c) THEN [irq |-> "None", cpu |-> c]
    ELSE ScanPending(SampleDevices(c))

(***************************************************************************)
(* Cpu::execute.  The result is Ok(next pc), Err(exception) or a panic     *)
(* (unreachable!()), each with the hart as the call leaves it.  The arms   *)
(* for LOAD and STORE are the 32-bit ones (lw, lwu, sw); a loaded value is *)
(* the environment's.                                                      *)
(***************************************************************************)
ExOk(pc, c) == [tag |-> "Ok", pc |-> pc, cpu |-> c]
\* a trap returned after the pc moved on
ExErrStepped(e, c) == [tag |-> "Err", e |-> e, cpu |-> [c EXCEPT !.pc = Add(c.pc, {2})]]
ExErr(e, c) == [tag |-> "Err", e |-> e, cpu |-> c]
ExPanic(c) == [tag |-> "Panic", cpu |-> c]

\* err_illegal_instruction!(inst)
\* an illegal-instruction error that carries the opcode field only
IllegalOpcode(inst, c) ==
    ExErr(Exception("IllegalInstruction", And(inst, 0..6)), c)

IllegalInstruction(inst, c) == ExErr(Exception("IllegalInstruction", inst), c)

\* words a 32-bit load may find in memory
MemWords == {{}, 0..31}

\* sret that leaves SPP as it was
ExecSretKeepSpp(c) ==
    LET sstatus == CsrLoad(c.csr, SSTATUS)
        mode == Val(Shr(And(sstatus, MASK_SPP), 8))
        spie == Shr(And(sstatus, MASK_SPIE), 5)
        s1 == Or(AndNot(sstatus, MASK_SIE), Shl(spie, 1))
        s2 == Or(s1, MASK_SPIE)
        k == CsrStore(c.csr, SSTATUS, s2)
    IN [tag |-> "Ok", pc |-> AndNot(CsrLoad(k, SEPC), {0, 1}),
        cpu |-> [c EXCEPT !.mode = mode, !.csr = k]]

\* sret
ExecSret(c) ==
    LET sstatus == CsrLoad(c.csr, SSTATUS)
        mode == Val(Shr(And(sstatus, MASK_SPP), 8))
        spie == Shr(And(sstatus, MASK_SPIE), 5)
        s1 == Or(AndNot(sstatus, MASK_SIE), Shl(spie, 1))
        s2 == Or(s1, MASK_SPIE)
        s3 == AndNot(s2, MASK_SPP)
        k == CsrStore(c.csr, SSTATUS, s3)
    IN ExOk(AndNot(CsrLoad(k, SEPC), {0, 1}), [c EXCEPT !.mode = mode, !.csr = k])

\* the MSTATUS word mret stores
MretStatus(mstatus) ==
    LET mpie == Shr(And(mstatus, MASK_MPIE), 7)
        s1 == Or(AndNot(mstatus, MASK_MIE), Shl(mpie, 3))
        s2 == Or(s1, MASK_MPIE)
        s3 == AndNot(s2, MASK_MPP)
    IN AndNot(s3, MASK_MPRV)

\* mret
ExecMret(c) ==
    LET mstatus == CsrLoad(c.csr, MSTATUS)
        mode == Val(Shr(And(mstatus, MASK_MPP), 11))
        k == CsrStore(c.csr, MSTATUS, MretStatus(mstatus))
    IN ExOk(AndNot(CsrLoad(k, MEPC), {0, 1}), [c EXCEPT !.mode = mode, !.csr = k])

\* (a as i64) < (b as i64)
SLt(a, b) ==
    IF (63 \in a) # (63 \in b) THEN 63 \in a ELSE Lt(a, b)

\* opcode 0x63: beq, bne, blt, bge, bltu, bgeu
ExecBranch(c, inst, d) ==
    LET imm == get_b_imm(inst)
        a == c.regs[d.rs1]
        b == c.regs[d.rs2]
        taken == CASE d.funct3 = 0 -> a = b
                   [] d.funct3 = 1 -> a # b
                   [] d.funct3 = 4 -> SLt(a, b)
                   [] d.funct3 = 5 -> ~SLt(a, b)
                   [] d.funct3 = 6 -> Lt(a, b)
                   [] d.funct3 = 7 -> ~Lt(a, b)
                   [] OTHER -> FALSE
    IN IF d.funct3 \notin {0, 1, 4, 5, 6, 7} THEN IllegalInstruction(inst, c)
       ELSE IF taken THEN ExOk(Add(c.pc, imm), c)
       ELSE ExOk(Add(c.pc, {2}), c)

\* jalr that reads rs1 after rd is written
ExecJalrRdFirst(c, inst, d) ==
    LET c1 == [c EXCEPT !.regs[d.rd] = Add(c.pc, {2})]
        new_pc == AndNot(Add(c1.regs[d.rs1], get_i_imm(inst)), {0})
    IN ExOk(new_pc, c1)

\* opcode 0x67: jalr
ExecJalr(c, inst, d) ==
    LET t == Add(c.pc, {2})
        new_pc == AndNot(Add(c.regs[d.rs1], get_i_imm(inst)), {0})
    IN ExOk(new_pc, [c EXCEPT !.regs[d.rd] = t])

\* csrrw, csrrs, csrrc, csrrwi, csrrsi, csrrci
ExecCsr(c, d, csr_addr) ==
    LET t == CsrLoad(c.csr, csr_addr)
        zimm == W(d.rs1)
        v == CASE d.funct3 = 1 -> c.regs[d.rs1]
               [] d.funct3 = 2 -> Or(t, c.regs[d.rs1])
               [] d.funct3 = 3 -> AndNot(t, c.regs[d.rs1])
               [] d.funct3 = 5 -> zimm
               [] d.funct3 = 6 -> Or(t, zimm)
               [] d.funct3 = 7 -> AndNot(t, zimm)
        c1 == [c EXCEPT !.csr = CsrStore(c.csr, csr_addr, v), !.regs[d.rd] = t]
        c2 == update_paging(c1, csr_addr)
    IN ExOk(Add(c.pc, {2}), c2)

\* opcode 0x73
ExecSystem(c, inst, d) ==
    LET csr_addr == Field(inst, 20, 12) IN
    CASE d.funct3 = 0 /\ d.rs2 = 0 /\ d.funct7 = 0 ->
            \* ecall
            CASE c.mode = User ->
                    {ExErr(Exception("EnvironmentCallFromUMode", c.pc), c)}
              [] c.mode = Supervisor ->
                    {ExErr(Exception("EnvironmentCallFromSMode", c.pc), c)}
              [] c.mode = Machine ->
                    {ExErr(Exception("EnvironmentCallFromMMode", c.pc), c)}
              [] OTHER -> {ExPanic(c)}
      [] d.funct3 = 0 /\ d.rs2 = 1 /\ d.funct7 = 0 ->
            \* ebreak
            {ExErr(Exception("Breakpoint", c.pc), c)}
      [] d.funct3 = 0 /\ d.rs2 = 2 /\ d.funct7 = 8 -> {ExecSret(c)}
      [] d.funct3 = 0 /\ d.rs2 = 2 /\ d.funct7 = 24 -> {ExecMret(c)}
      [] d.funct3 = 0 /\ d.funct7 = 9 ->
            \* sfence.vma
            {ExOk(Add(c.pc, {2}), c)}
      [] d.funct3 \in {1, 2, 3, 5, 6, 7} -> {ExecCsr(c, d, csr_addr)}
      [] OTHER -> {IllegalInstruction(inst, c)}

\* the sum of a << i over the bits i of b in lo..hi
RECURSIVE MulBits(_, _, _, _)
MulBits(a, b, lo, hi) ==
    IF lo = hi THEN (IF lo \in b THEN Shl(a, lo) ELSE {})
    ELSE LET mid == (lo + hi) \div 2
         IN Add(MulBits(a, b, lo, mid), MulBits(a, b, mid + 1, hi))

\* u64::wrapping_mul
Mul(a, b) == MulBits(a, b, 0, 63)

\* a 128-bit number is the set of its one-bits (a subset of 0..127)
Add128(a, b) ==
    {i \in 0..127 : ((i \in a) # (i \in b)) # Carry(a, b, i)}

RECURSIVE MulBits128(_, _, _, _)
MulBits128(a, b, lo, hi) ==
    IF lo = hi THEN (IF lo \in b THEN {i + lo : i \in {j \in a : j + lo <= 127}} ELSE {})
    ELSE LET mid == (lo + hi) \div 2
         IN Add128(MulBits128(a, b, lo, mid), MulBits128(a, b, mid + 1, hi))

\* i128::wrapping_mul and u128::wrapping_mul
Mul128(a, b) == MulBits128(a, b, 0, 127)

\* `x as i64 as i128`: the sign bit fills the upper half
AsI64AsI128(x) == x \cup (IF 63 \in x THEN 64..127 ELSE {})

\* `(val >> 64) as u64`
High64(val) == {i - 64 : i \in val \cap 64..127}

\* unsigned division bit by bit, from bit i of the dividend n down: q is the
\* quotient and r the remainder so far (d # 0)
RECURSIVE DivStep(_, _, _, _, _)
DivStep(n, d, i, q, r) ==
    IF i < 0 THEN [q |-> q, r |-> r]
    ELSE LET r1 == Shl(r, 1) \cup (IF i \in n THEN {0} ELSE {})
         IN IF 63 \in r \/ Le(d, r1)
            THEN DivStep(n, d, i - 1, q \cup {i}, Sub(r1, d))
            ELSE DivStep(n, d, i - 1, q, r1)

\* u64::wrapping_div and u64::wrapping_rem; a zero divisor panics
UDivRem(a, b) == DivStep(a, b, 63, {}, {})

\* i64::wrapping_div and i64::wrapping_rem; a zero divisor panics
SDivRem(a, b) ==
    LET ua == IF 63 \in a THEN Sub({}, a) ELSE a
        ub == IF 63 \in b THEN Sub({}, b) ELSE b
        x == UDivRem(ua, ub)
    IN [q |-> IF (63 \in a) # (63 \in b) THEN Sub({}, x.q) ELSE x.q,
        r |-> IF 63 \in a THEN Sub({}, x.r) ELSE x.r]

\* get_shamt_5
get_shamt_5(imm) == Val(And(imm, 0..4))

\* the (funct3, funct7) pairs the arm of opcode 0x33 matches
OpForms ==
    {<<0, 0>>, <<0, 1>>, <<0, 32>>, <<1, 0>>, <<1, 1>>, <<2, 0>>, <<2, 1>>,
     <<3, 0>>, <<3, 1>>, <<4, 0>>, <<4, 1>>, <<5, 0>>, <<5, 1>>, <<5, 32>>,
     <<6, 0>>, <<6, 1>>, <<7, 0>>, <<7, 1>>}

\* opcode 0x33: div, divu, rem, remu are translated; the value the other
\* forms the arm matches write is left open
ExecOp(c, inst, d) ==
    LET a == c.regs[d.rs1]
        b == c.regs[d.rs2]
        f == <<d.funct3, d.funct7>>
        next == Add(c.pc, {2})
    IN CASE f = <<1, 1>> ->
              \* mulh: both `as i64 as i128`
              {ExOk(next, [c EXCEPT !.regs[d.rd] =
                              High64(Mul128(AsI64AsI128(a), AsI64AsI128(b)))])}
         [] f = <<2, 1>> ->
              \* mulhsu: `self.regs[rs1] as i128` and `self.regs[rs2] as u64
              \* as i128`, both from u64 and so zero-extended
              {ExOk(next, [c EXCEPT !.regs[d.rd] = High64(Mul128(a, b))])}
         [] f = <<3, 1>> ->
              \* mulhu: both `as u128`
              {ExOk(next, [c EXCEPT !.regs[d.rd] = High64(Mul128(a, b))])}
         [] f = <<4, 1>> ->
              {ExOk(next, [c EXCEPT !.regs[d.rd] =
                              IF b = {} THEN Bits ELSE SDivRem(a, b).q])}
         [] f = <<5, 1>> ->
              {ExOk(next, [c EXCEPT !.regs[d.rd] =
                              IF b = {} THEN Bits ELSE UDivRem(a, b).q])}
         [] f = <<6, 1>> ->
              {ExOk(next, [c EXCEPT !.regs[d.rd] =
                              IF b = {} THEN a ELSE SDivRem(a, b).r])}
         [] f = <<7, 1>> ->
              {ExOk(next, [c EXCEPT !.regs[d.rd] =
                              IF b = {} THEN a ELSE UDivRem(a, b).r])}
         [] f \in OpForms ->
              {ExOk(next, [c EXCEPT !.regs[d.rd] = v]) : v \in {{}, Bits}}
         [] OTHER -> {IllegalInstruction(inst, c)}

\* opcode 0x3b: addw, mulw, subw, sllw, divw, srlw, divuw, sraw, remw, remuw
ExecOp32(c, inst, d) ==
    LET a == c.regs[d.rs1]
        b == c.regs[d.rs2]
        a32 == SignExtend(a, 32)
        b32 == SignExtend(b, 32)
        shamt == get_shamt_5(b)
        f == <<d.funct3, d.funct7>>
        next == Add(c.pc, {2})
    IN CASE f = <<0, 0>> ->
              {ExOk(next, [c EXCEPT !.regs[d.rd] = SignExtend(Add(a, b), 32)])}
         [] f = <<0, 1>> ->
              {ExOk(next, [c EXCEPT !.regs[d.rd] = SignExtend(Mul(a32, b32), 32)])}
         [] f = <<0, 32>> ->
              {ExOk(next, [c EXCEPT !.regs[d.rd] = SignExtend(Sub(a, b), 32)])}
         [] f = <<1, 0>> ->
              {ExOk(next, [c EXCEPT !.regs[d.rd] =
                              SignExtend(Shl(And(a, 0..31), shamt), 32)])}
         [] f = <<4, 1>> ->
              {ExOk(next, [c EXCEPT !.regs[d.rd] =
                              IF And(b, 0..31) = {} THEN Bits
                              ELSE SignExtend(SDivRem(a32, b32).q, 32)])}
         [] f = <<5, 0>> ->
              {ExOk(next, [c EXCEPT !.regs[d.rd] =
                              SignExtend(Shr(And(a, 0..31), shamt), 32)])}
         [] f = <<5, 1>> ->
              \* match self.regs[rs2] { 0 => ..., _ => dividend.wrapping_div(divisor) }
              {ExOk(next, [c EXCEPT !.regs[d.rd] =
                              IF b = {} THEN Bits ELSE UDivRem(a, b).q])}
         [] f = <<5, 32>> ->
              {ExOk(next, [c EXCEPT !.regs[d.rd] = SignExtend(Shr(a32, shamt), 32)])}
         [] f = <<6, 1>> ->
              {ExOk(next, [c EXCEPT !.regs[d.rd] =
                              IF And(b, 0..31) = {} THEN a32
                              ELSE SignExtend(SDivRem(a32, b32).r, 32)])}
         [] f = <<7, 1>> ->
              \* match self.regs[rs2] { 0 => self.regs[rs1], _ => (rs1 as u32)
              \* .wrapping_rem(rs2 as u32) as i32 as u64 }
              IF b = {} THEN {ExOk(next, [c EXCEPT !.regs[d.rd] = a])}
              ELSE IF And(b, 0..31) = {} THEN {ExPanic(c)}
              ELSE {ExOk(next, [c EXCEPT !.regs[d.rd] =
                        SignExtend(UDivRem(And(a, 0..31), And(b, 0..31)).r, 32)])}
         [] OTHER -> {IllegalInstruction(inst, c)}

\* opcode 0x1b: addiw, slliw, srliw, sraiw
ExecOpImm32(c, inst, d) ==
    LET a == c.regs[d.rs1]
        imm == get_i_imm(inst)
        shamt == get_shamt_5(imm)
        next == Add(c.pc, {2})
    IN CASE d.funct3 = 0 ->
              {ExOk(next, [c EXCEPT !.regs[d.rd] = SignExtend(Add(a, imm), 32)])}
         [] d.funct3 = 1 ->
              {ExOk(next, [c EXCEPT !.regs[d.rd] = SignExtend(Shl(a, shamt), 32)])}
         [] d.funct3 = 5 /\ d.funct7 = 0 ->
              {ExOk(next, [c EXCEPT !.regs[d.rd] =
                              SignExtend(Shr(And(a, 0..31), shamt), 32)])}
         [] d.funct3 = 5 /\ d.funct7 = 32 ->
              {ExOk(next, [c EXCEPT !.regs[d.rd] =
                              SignExtend(Shr(SignExtend(a, 32), shamt), 32)])}
         [] OTHER -> {IllegalInstruction(inst, c)}

\* the instruction words whose arm of execute the model translates
Modelled(inst) ==
    LET d == decode_r(inst) IN
    \/ d.opcode \notin KnownOpcodes
    \/ d.opcode \in {15, 103, 111}
    \/ d.opcode = 3 /\ d.funct3 \in {2, 6, 7}
    \/ d.opcode = 19 /\ (d.funct3 = 0 \/ (d.funct3 = 5 /\ (d.funct7 \div 2) \notin {0, 16}))
    \/ d.opcode = 27
    \/ d.opcode = 51 /\ ((d.funct7 = 1 /\ d.funct3 \in 4..7)
                         \/ <<d.funct3, d.funct7>> \notin OpForms)
    \/ d.opcode = 59
    \/ d.opcode = 35 /\ d.funct3 \in {2, 4, 5, 6, 7}
    \/ d.opcode = 47
    \/ d.opcode = 99
    \/ d.opcode = 115 /\ (d.funct3 \notin {1, 2, 3, 5, 6, 7}
                          \/ Field(inst, 20, 12) \in CsrAddrs \cup {SSTATUS, SIE, SIP})

\* the value an AMO arm of Cpu::execute hands to store: t is the loaded value,
\* b is regs[rs2]
AmoValue(funct3, funct5, t, b) ==
    CASE funct5 = 0 -> Add(t, b)
      [] funct5 = 1 -> b
      [] funct5 = 4 -> (b \ t) \cup (t \ b)
      [] funct5 = 8 -> b \cup t
      [] funct5 = 12 -> b \cap t
      [] funct5 = 16 /\ funct3 = 2 ->
            \* min(regs[rs2] as i32, t as i32) as u64
            LET bs == SignExtend(b, 32)
                ts == SignExtend(t, 32)
            IN IF SLt(ts, bs) THEN ts ELSE bs
      [] funct5 = 20 /\ funct3 = 2 ->
            LET bs == SignExtend(b, 32)
                ts == SignExtend(t, 32)
            IN IF SLt(ts, bs) THEN bs ELSE ts
      [] funct5 = 16 -> IF SLt(t, b) THEN t ELSE b
      [] funct5 = 20 -> IF SLt(t, b) THEN b ELSE t
      \* min(regs[rs2], t) and max(regs[rs2], t): the whole register, both widths
      [] funct5 = 24 -> IF Lt(t, b) THEN t ELSE b
      [] funct5 = 28 -> IF Lt(t, b) THEN b ELSE t

\* the funct5 values that have an arm, for funct3 2 (.w) and 3 (.d) alike
AmoForms == {0, 1, 2, 3, 4, 8, 12, 16, 20, 24, 28}

\* Cpu::execute, opcode 0x2f: t <- load, store(op), rd <- t
ExecAmo(c, inst, d) ==
    LET funct5 == d.funct7 \div 4
        size == IF d.funct3 = 2 THEN 32 ELSE 64
        addr == c.regs[d.rs1]
        next == Add(c.pc, {2})
        Stored(c1, value, rd) ==
            {CASE y.r.tag = "Err" -> ExErr(y.r.e, c1)
               [] y.r.tag = "Panic" -> ExPanic([c1 EXCEPT !.bus = y.bus])
               [] y.r.tag = "Ok" -> ExOk(next, [c1 EXCEPT !.bus = y.bus, !.regs[d.rd] = rd])
             : y \in CpuStore(c1, addr, size, value)}
    IN
    CASE d.funct3 \notin {2, 3} \/ funct5 \notin AmoForms -> {IllegalInstruction(inst, c)}
      [] funct5 = 2 ->
            \* lr: the load alone
            {CASE x.r.tag = "Err" -> ExErr(x.r.e, c)
               [] x.r.tag = "Panic" -> ExPanic(c)
               [] x.r.tag = "Ok" -> ExOk(next, [c EXCEPT !.bus = x.bus, !.regs[d.rd] = x.r.v])
             : x \in CpuLoad(c, addr, size, MemWords)}
      [] funct5 = 3 ->
            \* sc, no condition
            Stored(c, c.regs[d.rs2], c.regs[d.rd])
      [] OTHER ->
            UNION {CASE x.r.tag = "Err" -> {ExErr(x.r.e, c)}
                     [] x.r.tag = "Panic" -> {ExPanic(c)}
                     [] x.r.tag = "Ok" ->
                          Stored([c EXCEPT !.bus = x.bus],
                                 AmoValue(d.funct3, funct5, x.r.v, c.regs[d.rs2]), x.r.v)
                   : x \in CpuLoad(c, addr, size, MemWords)}

\* Cpu::execute: every result the call can have
execute(cpu0, inst) ==
    LET d == decode_r(inst)
        \* by spec x0 is ALWAYS zero
        c == [cpu0 EXCEPT !.regs[0] = {}]
        next == Add(c.pc, {2})
    IN
    CASE d.opcode = 3 /\ d.funct3 = 7 -> {IllegalInstruction(inst, c)}
      [] d.opcode = 3 ->
            LET addr == Add(c.regs[d.rs1], get_i_imm(inst)) IN
            {CASE x.r.tag = "Err" -> ExErr(x.r.e, c)
               [] x.r.tag = "Panic" -> ExPanic(c)
               [] x.r.tag = "Ok" ->
                    ExOk(next, [c EXCEPT !.bus = x.bus, !.regs[d.rd] =
                                IF d.funct3 = 2 THEN SignExtend(x.r.v, 32) ELSE x.r.v])
             : x \in CpuLoad(c, addr, 32, MemWords)}
      [] d.opcode = 15 -> {ExOk(next, c)}
      [] d.opcode = 19 /\ d.funct3 = 5 /\ (d.funct7 \div 2) \notin {0, 16} ->
            {IllegalInstruction(inst, c)}
      [] d.opcode = 19 ->
            \* addi
            {ExOk(next, [c EXCEPT !.regs[d.rd] = Add(c.regs[d.rs1], get_i_imm(inst))])}
      [] d.opcode = 27 -> ExecOpImm32(c, inst, d)
      [] d.opcode = 35 /\ d.funct3 > 3 -> {IllegalInstruction(inst, c)}
      [] d.opcode = 35 ->
            LET addr == Add(c.regs[d.rs1], get_s_imm(inst)) IN
            {CASE x.r.tag = "Err" -> ExErr(x.r.e, c)
               [] x.r.tag = "Panic" -> ExPanic([c EXCEPT !.bus = x.bus])
               [] x.r.tag = "Ok" -> ExOk(next, [c EXCEPT !.bus = x.bus])
             : x \in CpuStore(c, addr, 32, c.regs[d.rs2])}
      [] d.opcode = 47 -> ExecAmo(c, inst, d)
      [] d.opcode = 51 -> ExecOp(c, inst, d)
      [] d.opcode = 59 -> ExecOp32(c, inst, d)
      [] d.opcode = 99 -> {ExecBranch(c, inst, d)}
      [] d.opcode = 103 -> {ExecJalr(c, inst, d)}
      [] d.opcode = 111 ->
            \* jal
            {ExOk(Add(c.pc, get_j_imm(inst)), [c EXCEPT !.regs[d.rd] = next])}
      [] d.opcode = 115 -> ExecSystem(c, inst, d)
      [] OTHER -> {IllegalInstruction(inst, c)}

(***************************************************************************)
(* The guest.  Guest memory is the environment's: every fetch that reaches *)
(* DRAM finds one of the instruction words of Program.                     *)
(***************************************************************************)
\* an I-type (or SYSTEM) instruction word
EncI(imm, rs1, funct3, rd, opcode) ==
    Shl(W(imm), 20) \cup Shl(W(rs1), 15) \cup Shl(W(funct3), 12)
        \cup Shl(W(rd), 7) \cup W(opcode)

\* an S-type instruction word with immediate 0
EncS(rs2, rs1, funct3, opcode) ==
    Shl(W(rs2), 20) \cup Shl(W(rs1), 15) \cup Shl(W(funct3), 12) \cup W(opcode)

I_ZERO == {}
I_ADDI_X0 == EncI(5, 0, 0, 0, 19)
I_JALR_X0 == EncI(4, 0, 0, 0, 103)
I_JAL_X1 == Shl(W(4), 21) \cup Shl(W(1), 7) \cup W(111)
I_ECALL == EncI(0, 0, 0, 0, 115)
I_EBREAK == EncI(1, 0, 0, 0, 115)
I_SRET == EncI(258, 0, 0, 0, 115)
I_MRET == EncI(770, 0, 0, 0, 115)
I_SFENCE == EncI(288, 0, 0, 0, 115)
I_CSRRW_X0_MEPC == EncI(MEPC, 2, 1, 0, 115)
I_CSRRSI_MSTATUS == EncI(MSTATUS, 8, 6, 0, 115)
I_CSRRSI_SSTATUS == EncI(SSTATUS, 2, 6, 0, 115)
I_LW == EncI(0, 0, 2, 1, 3)
I_SW == EncS(0, 0, 2, 35)
I_ILLEGAL == 0..31

Program ==
    {I_ZERO, I_ADDI_X0, I_JALR_X0, I_JAL_X1, I_ECALL, I_EBREAK, I_SRET, I_MRET,
     I_SFENCE, I_CSRRW_X0_MEPC, I_CSRRSI_MSTATUS, I_CSRRSI_SSTATUS, I_LW, I_SW,
     I_ILLEGAL}

(***************************************************************************)
(* The hart at a loop head of run_cpu with n_clock ticks left.  Cpu::new   *)
(* gives the registers, the pc, Machine mode and the devices; the CSR file *)
(* is as the ticks before it, a machine-mode prologue of CSR writes, left  *)
(* it (any value can be written to any CSR from Machine mode), the         *)
(* all-zero file of Csr::new included, and the paging fields are what      *)
(* update_paging made of SATP.  The history variables budget and fetches   *)
(* count from that loop head.                                              *)
(***************************************************************************)
BootStatus == {{}, {1, 3, 7, 11, 17}}

\* (MEDELEG, MIDELEG)
BootDeleg == {<<{}, {}>>, <<0..15, {1, 5, 9}>>}

\* (MIE, MIP)
BootIrq == {<<{1, 3, 5, 7, 9, 11}, {1, 7}>>}

\* (MTVEC, STVEC)
BootTvec == {<<{12}, {0, 13}>>}

\* SATP: bare, or Sv39 with the root page at DRAM_BASE
BootSatp == {{}, {19, 63}}

BootCsrs ==
    {[a \in CsrAddrs |->
        CASE a = MSTATUS -> st
          [] a = MEDELEG -> dg[1]
          [] a = MIDELEG -> dg[2]
          [] a = MIE -> iq[1]
          [] a = MIP -> iq[2]
          [] a = MTVEC -> tv[1]
          [] a = STVEC -> tv[2]
          [] a = MEPC -> {1, 12, 13}
          [] a = SEPC -> {0, 1, 14}
          [] a = SATP -> sp
          [] OTHER -> {}]
     : st \in BootStatus, dg \in BootDeleg, iq \in BootIrq, tv \in BootTvec,
       sp \in BootSatp}

\* Bus::new: Dram::new(code), of which the model keeps the instruction words
\* the image holds and the zeroes of the last bytes, Uart::new, Plic::new and
\* the virtio device
NewBus ==
    [dram |-> [code |-> Program, data |-> [k \in DramWindow |-> 0]],
     uart |-> [interrupt |-> FALSE, lsr |-> {5}, rhr |-> 0],
     plic |-> [pending |-> {}, senable |-> {}, spriority |-> {}, sclaim |-> {}],
     clint |-> [mtime |-> {}, mtimecmp |-> {}],
     virtio_blk |-> [interrupt |-> FALSE],
     disk_txn |-> 0]

\* Cpu::new
NewCpu ==
    [regs |-> [i \in 0..31 |-> IF i = 2 THEN DRAM_END ELSE {}],
     pc |-> DRAM_BASE,
     bus |-> NewBus,
     csr |-> [a \in CsrAddrs |-> {}],
     mode |-> Machine,
     page_table |-> {},
     enable_paging |-> FALSE]

BootCpus == {update_paging([NewCpu EXCEPT !.csr = k], SATP) : k \in BootCsrs}

(***************************************************************************)
(* run_cpu (src/src/cpu/test_framework.rs)                                 *)
(***************************************************************************)
VARIABLES
    cpu,        \* the Cpu
    n_clock,    \* the remaining tick budget, -1 for none
    loc,        \* where the loop is: "fetch", "execute", "poll", "done", "panic"
    inst,       \* the fetched instruction word
    budget,     \* history: the n_clock run_cpu was called with
    fetches,    \* history: the number of calls of Cpu::fetch
    last,       \* history: the last step of the loop
    reader      \* the UART's reader thread: where it is and the byte it holds

vars == <<cpu, n_clock, loc, inst, budget, fetches, last, reader>>

\* the reader thread as Uart::new spawns it: about to read standard input
NewReader == [pc |-> "read", byte |-> 0]

\* the cap on fetches of a run
MaxFetch == MaxClock + 1

NoException == Exception("None", {})

\* op: the step; before: the Cpu (but for its paging fields) when the step began;
\* e: the exception handled in this iteration of the loop; irq: what
\* check_pending_interrupt returned
Step(op, c, e, irq) ==
    [op |-> op,
     before |-> [pc |-> c.pc, mode |-> c.mode, csr |-> c.csr, bus |-> c.bus,
                 regs |-> c.regs],
     e |-> e, irq |-> irq,
     \* history: the last exception a fetch or an execute raised: the number
     \* of the fetch, and the pc, the mode and MSTATUS it found
     trap |-> CASE op = "new" -> [fetch |-> -1, pc |-> c.pc, mode |-> c.mode,
                                  status |-> c.csr[MSTATUS]]
                [] op \in {"fetch", "execute"} /\ e.kind # "None" ->
                     [fetch |-> IF op = "fetch" THEN fetches + 1 ELSE fetches,
                      pc |-> c.pc, mode |-> c.mode, status |-> c.csr[MSTATUS]]
                [] OTHER -> last.trap]

Init ==
    /\ cpu \in BootCpus
    /\ n_clock \in 0..MaxClock
    /\ loc = "fetch"
    /\ inst = {}
    /\ budget = n_clock
    /\ fetches = 0
    /\ last = Step("new", cpu, NoException, "None")
    /\ reader = NewReader

\* while n_clock != 0 || n_clock == -1: the budget is used up
LoopExit ==
    /\ loc = "fetch"
    /\ n_clock = 0
    /\ loc' = "done"
    /\ UNCHANGED <<cpu, n_clock, inst, budget, fetches, last, reader>>

\* cpu.fetch(): Ok(0) breaks, Ok(inst) goes on to execute, Err(e) is handled
\* and, unless fatal, the loop continues at its head
Fetch ==
    /\ loc = "fetch"
    /\ n_clock # 0
    /\ fetches < MaxFetch
    /\ fetches' = fetches + 1
    /\ \E r \in fetch(cpu, cpu.bus.dram.code) :
         \/ /\ r.tag = "Ok"
            /\ r.v = {}
            /\ loc' = "done"
            /\ last' = Step("fetch", cpu, NoException, "None")
            /\ UNCHANGED <<cpu, inst>>
         \/ /\ r.tag = "Ok"
            /\ r.v # {}
            /\ inst' = r.v
            /\ loc' = "execute"
            /\ last' = Step("fetch", cpu, NoException, "None")
            /\ UNCHANGED cpu
         \/ /\ r.tag = "Err"
            /\ cpu' = handle_exception(cpu, r.e)
            /\ loc' = IF is_fatal(r.e) THEN "done" ELSE "fetch"
            /\ last' = Step("fetch", cpu, r.e, "None")
            /\ UNCHANGED inst
         \/ /\ r.tag = "Panic"
            /\ loc' = "panic"
            /\ last' = Step("fetch", cpu, NoException, "None")
            /\ UNCHANGED <<cpu, inst>>
    /\ UNCHANGED <<n_clock, budget, reader>>

\* cpu.execute(inst): Ok(pc) sets the pc, Err(e) is handled and, if fatal,
\* breaks
Execute ==
    /\ loc = "execute"
    /\ \E r \in execute(cpu, inst) :
         \/ /\ r.tag = "Ok"
            /\ cpu' = [r.cpu EXCEPT !.pc = r.pc]
            /\ loc' = "poll"
            /\ last' = Step("execute", cpu, NoException, "None")
         \/ /\ r.tag = "Err"
            /\ cpu' = handle_exception(r.cpu, r.e)
            /\ loc' = IF is_fatal(r.e) THEN "done" ELSE "poll"
            /\ last' = Step("execute", cpu, r.e, "None")
         \/ /\ r.tag = "Panic"
            /\ cpu' = r.cpu
            /\ loc' = "panic"
            /\ last' = Step("execute", cpu, NoException, "None")
    /\ UNCHANGED <<n_clock, inst, budget, fetches, reader>>

\* cpu.check_pending_interrupt(), handle_interrupt on Some, and the tick
Poll ==
    /\ loc = "poll"
    /\ LET r == check_pending_interrupt(cpu)
           h == IF r.irq = "None" THEN [panicked |-> FALSE, cpu |-> r.cpu]
                ELSE handle_interrupt(r.cpu, r.irq)
       IN /\ cpu' = h.cpu
          /\ last' = Step("poll", cpu, last.e, r.irq)
          /\ IF h.panicked
             THEN loc' = "panic" /\ UNCHANGED n_clock
             ELSE /\ loc' = "fetch"
                  /\ n_clock' = IF n_clock # -1 THEN n_clock - 1 ELSE n_clock
    /\ UNCHANGED <<inst, budget, fetches, reader>>

\* The UART's reader thread (uart.rs:36-54): with LSR.RX clear it puts the
\* byte in RHR, raises the interrupt flag and sets LSR.RX; with LSR.RX set it
\* waits.  The loop reads the flag only in check_pending_interrupt, so the
\* thread's step is taken where the loop is about to poll.
UartReceive ==
    /\ loc = "poll"
    /\ 0 \notin cpu.bus.uart.lsr
    /\ cpu' = [cpu EXCEPT !.bus.uart = [interrupt |-> TRUE,
                                        lsr |-> cpu.bus.uart.lsr \cup {0},
                                        rhr |-> 1]]
    /\ UNCHANGED <<n_clock, loc, inst, budget, fetches, last, reader>>

\* The virtio device raises its interrupt flag when the guest notifies the
\* queue; the loop reads the flag only in check_pending_interrupt.
VirtioNotify ==
    /\ loc = "poll"
    /\ ~cpu.bus.virtio_blk.interrupt
    /\ cpu' = [cpu EXCEPT !.bus.virtio_blk.interrupt = TRUE]
    /\ UNCHANGED <<n_clock, loc, inst, budget, fetches, last, reader>>

Next == LoopExit \/ Fetch \/ Execute \/ Poll \/ UartReceive \/ VirtioNotify

Spec == Init /\ [][Next]_vars

(***************************************************************************)
(* One tick of run_cpu on a hart the guest has set up: the mode is any of  *)
(* the three a trap return can leave, the CSR file is what earlier CSR     *)
(* writes made of it, and the devices may have raised their flags.  The    *)
(* configurations come in three families: trap entry (every mode, status,  *)
(* delegation and vector word), interrupt polling (every mode, the global  *)
(* enables, the pending sets and the device flags), and Sv39.              *)
(***************************************************************************)
\* MSTATUS: the last value has MPP = 0b10, as a csrw mstatus can leave it
TickStatus ==
    {{}, {1, 3}, {3, 7, 11, 12, 17}, {1, 5, 8, 11, 17}, {7, 17, 18}, {3, 12}}

\* (MEDELEG, MIDELEG)
TickDeleg == {<<{}, {}>>, <<0..15, {1, 5, 9}>>, <<{8, 12}, {9}>>}

\* (MTVEC, STVEC): direct, vectored, and the reserved vector modes
TickTvec == {<<{12}, {0, 13}>>, <<{0, 12}, {13}>>, <<{1, 12}, {0, 1, 13}>>}

\* (MIE, MIP)
TickIrq ==
    {<<{1, 3, 5, 7, 9, 11}, m>> :
        m \in {{}, {1, 3, 5, 7, 9, 11}, {1, 3, 5, 7, 9}, {1, 5, 7, 9}, {1, 5, 9},
               {1, 5}, {5}}}
    \cup {<<{1, 5}, {3, 7, 9, 11}>>, <<{5, 9}, {1, 3, 5, 7, 9, 11}>>}

TickConfig(mode, st, dg, iq, tv, sp, ua, vi) ==
    [mode |-> mode, st |-> st, dg |-> dg, iq |-> iq, tv |-> tv, sp |-> sp,
     ua |-> ua, vi |-> vi]

TickConfigs ==
    {TickConfig(m, st, dg, <<{1, 3, 5, 7, 9, 11}, {1, 7}>>, tv, {}, FALSE, FALSE) :
        m \in {User, Supervisor, Machine}, st \in TickStatus, dg \in TickDeleg,
        tv \in TickTvec}
    \cup
    {TickConfig(m, st, <<0..15, {1, 5, 9}>>, iq, <<{0, 12}, {0, 13}>>, {}, ua, vi) :
        m \in {User, Supervisor, Machine}, st \in {{}, {1, 3}}, iq \in TickIrq,
        ua \in BOOLEAN, vi \in BOOLEAN}
    \cup
    \* Sv39 with the root page at DRAM_BASE, and at address 0, where the bus
    \* maps nothing
    {TickConfig(m, st, <<0..15, {1, 5, 9}>>, <<{}, {}>>, <<{12}, {13}>>, sp,
                FALSE, FALSE) :
        m \in {User, Supervisor, Machine}, st \in {{}, {1, 3}},
        sp \in {{19, 63}, {63}}}

\* the hart of a configuration
TickCpu(k) ==
    LET csrs == [a \in CsrAddrs |->
                    CASE a = MSTATUS -> k.st
                      [] a = MEDELEG -> k.dg[1]
                      [] a = MIDELEG -> k.dg[2]
                      [] a = MIE -> k.iq[1]
                      [] a = MIP -> k.iq[2]
                      [] a = MTVEC -> k.tv[1]
                      [] a = STVEC -> k.tv[2]
                      [] a = MEPC -> {1, 12, 13}
                      [] a = SEPC -> {0, 1, 14}
                      [] a = SATP -> k.sp
                      [] OTHER -> {}]
        bus == [NewBus EXCEPT !.uart = [interrupt |-> k.ua,
                                        lsr |-> IF k.ua THEN {0, 5} ELSE {5},
                                        rhr |-> IF k.ua THEN 1 ELSE 0],
                              !.virtio_blk.interrupt = k.vi]
    IN update_paging([NewCpu EXCEPT !.csr = csrs, !.mode = k.mode, !.bus = bus],
                     SATP)

InitTick ==
    /\ cpu \in {TickCpu(k) : k \in TickConfigs}
    /\ n_clock = 1
    /\ loc = "fetch"
    /\ inst = {}
    /\ budget = n_clock
    /\ fetches = 0
    /\ last = Step("new", cpu, NoException, "None")
    /\ reader = NewReader

SpecTick == InitTick /\ [][Next]_vars

(***************************************************************************)
(* One tick of run_cpu on a guest that is at work on its registers and     *)
(* CSRs: the image holds the Zicsr forms on the supervisor views and on    *)
(* SATP, the branches, and the jumps; t0 (x5) and t1 (x6) hold the         *)
(* operands.                                                               *)
(***************************************************************************)
\* a B-type instruction word; imm is the offset as a word (bits 1..12)
EncB(imm, rs2, rs1, funct3) ==
    (IF 12 \in imm THEN {31} ELSE {})
        \cup Shl(And(imm, 5..10), 20)
        \cup Shl(W(rs2), 20) \cup Shl(W(rs1), 15) \cup Shl(W(funct3), 12)
        \cup Shl(And(imm, 1..4), 7)
        \cup (IF 11 \in imm THEN {7} ELSE {})
        \cup W(99)

\* The image: csrr{w,s,c} t2, csr, t0; csrr{w,s,c}i t2, csr, 6;
\* csrrs t2, csr, zero; csrrwi zero, sstatus, 4 (test_csrs1);
\* b<cond> t0, t1, +8 and -4, and a branch word whose funct3 is no branch;
\* jalr t0, 3(t0); jalr ra, -8(t0); jal t2, -4; and words of Program
ExecProgram ==
    {EncI(a, 5, f, 7, 115) : a \in {SSTATUS, SIE, SIP, SATP, MSTATUS}, f \in {1, 2, 3}}
    \cup {EncI(a, 6, f, 7, 115) : a \in {SSTATUS, SIE, SIP, SATP}, f \in {5, 6, 7}}
    \cup {EncI(a, 0, 2, 7, 115) : a \in {SSTATUS, SIE, SIP}}
    \cup {EncI(SSTATUS, 4, 5, 0, 115)}
    \cup {EncB(imm, 6, 5, f) : imm \in {{3}, 2..12}, f \in {0, 1, 4, 5, 6, 7}}
    \cup {EncB({3}, 6, 5, 2)}
    \cup {EncI(3, 5, 0, 5, 103), EncI(4088, 5, 0, 1, 103)}
    \cup {(12..20) \cup (22..31) \cup Shl(W(7), 7) \cup W(111)}
    \cup {I_ADDI_X0, I_JAL_X1, I_ECALL, I_SRET, I_MRET, I_SFENCE, I_LW, I_ILLEGAL}

\* The harts: t0 and t1 hold zero, a small odd word, a word with SATP mode 3
\* and one with SATP mode 8 and the sign bit; st is (MSTATUS, SATP) and iq is
\* (MIDELEG, MIE, MIP)
ExecCpus ==
    {LET csrs == [a \in CsrAddrs |->
                     CASE a = MSTATUS -> st[1]
                       [] a = SATP -> st[2]
                       [] a = MEDELEG -> 0..15
                       [] a = MIDELEG -> iq[1]
                       [] a = MIE -> iq[2]
                       [] a = MIP -> iq[3]
                       [] a = MTVEC -> {12}
                       [] a = STVEC -> {13}
                       [] a = MEPC -> {1, 12, 13}
                       [] a = SEPC -> {0, 1, 14}
                       [] OTHER -> {}]
     IN update_paging(
            [NewCpu EXCEPT !.csr = csrs, !.regs[5] = t0, !.regs[6] = t1,
                           !.bus.dram.code = ExecProgram], SATP)
     : t0 \in {{}, {0, 1, 5, 8, 9, 13}, {0, 9, 60, 61}, {1, 3, 5, 19, 63}},
       t1 \in {{0, 1, 5, 8, 9, 13}, {1, 3, 5, 19, 63}},
       st \in {<<{0}, {}>>, <<{1, 3, 5, 7, 8, 11, 12, 18, 22}, {19, 63}>>},
       iq \in {<<{1, 5, 9}, {1, 3, 5, 7}, {1, 7, 9}>>,
               <<{1}, {3, 5, 9}, {1, 5, 11}>>,
               <<{}, {1, 3, 5, 7, 9, 11}, {}>>}}

InitExec ==
    /\ cpu \in ExecCpus
    /\ n_clock = 1
    /\ loc = "fetch"
    /\ inst = {}
    /\ budget = n_clock
    /\ fetches = 0
    /\ last = Step("new", cpu, NoException, "None")
    /\ reader = NewReader

SpecExec == InitExec /\ [][Next]_vars

(***************************************************************************)
(* One tick of run_cpu on a guest doing arithmetic: the image holds the    *)
(* divisions and remainders of OP, the words of OP-32 and OP-IMM-32, and   *)
(* words no arm of execute matches; t0 (x5) and t1 (x6) hold the operands, *)
(* among them words whose upper and lower halves differ in being zero.     *)
(***************************************************************************)
\* an R-type instruction word
EncR(funct7, rs2, rs1, funct3, rd, opcode) ==
    Shl(W(funct7), 25) \cup Shl(W(rs2), 20) \cup Shl(W(rs1), 15)
        \cup Shl(W(funct3), 12) \cup Shl(W(rd), 7) \cup W(opcode)

\* div, divu, rem, remu t2, t0, t1; the ten words of OP-32 on t2, t0, t1;
\* addiw t2, t0, 1 and -1; slliw t2, t0, 1 and 31; srliw and sraiw t2, t0, 4;
\* and the unmatched words: lb-like funct3 7, OP-IMM funct3 5 with funct7 2,
\* OP-IMM-32 funct3 2 and funct3 5 with funct7 1, sb-like funct3 4, OP
\* (0, 2), OP-32 (2, 0) and (0, 5), SYSTEM funct3 4, and the opcodes 0x7f
\* and 0x0b
AluProgram ==
    {EncR(1, 6, 5, f, 7, 51) : f \in 1..7}
    \cup {EncR(f[2], 6, 5, f[1], 7, 59) :
            f \in {<<0, 0>>, <<0, 1>>, <<0, 32>>, <<1, 0>>, <<4, 1>>, <<5, 0>>,
                   <<5, 1>>, <<5, 32>>, <<6, 1>>, <<7, 1>>}}
    \cup {EncI(1, 5, 0, 7, 27), EncI(4095, 5, 0, 7, 27), EncI(1, 5, 1, 7, 27),
          EncI(31, 5, 1, 7, 27), EncI(4, 5, 5, 7, 27), EncI(1028, 5, 5, 7, 27)}
    \cup {EncI(0, 5, 7, 7, 3), EncR(2, 4, 5, 5, 7, 19), EncI(1, 5, 2, 7, 27),
          EncR(1, 4, 5, 5, 7, 27), EncS(6, 5, 4, 35), EncR(2, 6, 5, 0, 7, 51),
          EncR(0, 6, 5, 2, 7, 59), EncR(5, 6, 5, 0, 7, 59), EncI(0, 5, 4, 7, 115),
          EncB({3}, 6, 5, 3), 0..31, EncR(0, 6, 5, 0, 7, 11)}

\* The harts: t0 holds 119, 0x8000_0000, 0x101_0000_0005 or -1; t1 holds 0,
\* 0x1_0000_0000, 3, 0x2_0000_0003 or -1; the mode is any of the three and
\* MEDELEG delegates illegal instructions or nothing
AluCpus ==
    {[NewCpu EXCEPT !.csr = [a \in CsrAddrs |->
                                CASE a = MEDELEG -> dg
                                  [] a = MTVEC -> {12}
                                  [] a = STVEC -> {13}
                                  [] OTHER -> {}],
                    !.mode = m, !.regs[5] = t0, !.regs[6] = t1,
                    !.bus.dram.code = AluProgram]
     : t0 \in {{0, 1, 2, 4, 5, 6}, {31}, {0, 2, 32, 40}, Bits},
       t1 \in {{}, {32}, {0, 1}, {0, 1, 33}, Bits},
       m \in {User, Supervisor, Machine},
       dg \in {{}, {2}}}

InitAlu ==
    /\ cpu \in AluCpus
    /\ n_clock = 1
    /\ loc = "fetch"
    /\ inst = {}
    /\ budget = n_clock
    /\ fetches = 0
    /\ last = Step("new", cpu, NoException, "None")
    /\ reader = NewReader

SpecAlu == InitAlu /\ [][Next]_vars

(***************************************************************************)
(* Calls of Bus::load, Bus::store, Dram::load and Dram::store on the bus   *)
(* of Cpu::new, as Cpu::load, Cpu::store and the tests make them: one      *)
(* store, then one load.  The addresses lie at the end of DRAM (its last 8 *)
(* bytes, the byte after), below DRAM, in and after the UART window and at *)
(* 0; the DRAM bytes the model keeps start as Dram::new leaves them or as  *)
(* earlier stores did.                                                     *)
(***************************************************************************)
\* DRAM_END - 7, DRAM_END - 3, DRAM_END - 1, DRAM_END, DRAM_END + 1,
\* DRAM_BASE - 1, UART_BASE, UART_BASE + UART_LSR, UART_END, UART_END + 1, 0
MemAddrs ==
    {Sub(DRAM_END, {0, 1, 2}), Sub(DRAM_END, {0, 1}), Sub(DRAM_END, {0}), DRAM_END,
     Add(DRAM_END, {0}), Sub(DRAM_BASE, {0}), UART_BASE, Add(UART_BASE, {0, 2}),
     UART_END, Add(UART_END, {0}), {}}

MemSizes == {8, 16, 24, 32, 64, 128}

MemValues == {{0, 9, 18, 27, 36, 45, 54, 63}, {7, 8, 16, 33, 40, 62}}

\* the record of a call: the callee ("bus" or "dram"), the arguments, the
\* result, the bus before the call and the call before it
Access(op, level, addr, size, value, r, bus) ==
    [op |-> op, level |-> level, addr |-> addr, size |-> size, value |-> value,
     r |-> r, before |-> bus,
     prev |-> IF last.op = "new" THEN [op |-> "new"]
              ELSE [op |-> last.op, level |-> last.level, addr |-> last.addr,
                    size |-> last.size,
                    value |-> last.value, r |-> last.r, before |-> last.before]]

InitMem ==
    /\ cpu \in {[NewCpu EXCEPT !.bus.dram.data = [k \in DramWindow |-> b]]
                : b \in {0, 165}}
    /\ n_clock = 0
    /\ loc = "mem"
    /\ inst = {}
    /\ budget = n_clock
    /\ fetches = 0
    /\ last = Step("new", cpu, NoException, "None")
    /\ reader = NewReader

\* self.bus.store(addr, size, value)
BusStoreCall ==
    /\ loc = "mem"
    /\ last.op = "new"
    /\ \E addr \in MemAddrs, size \in MemSizes, value \in MemValues :
         LET x == BusStore(cpu.bus, addr, size, value) IN
         /\ cpu' = [cpu EXCEPT !.bus = x.bus]
         /\ last' = Access("store", "bus", addr, size, value, x.r, cpu.bus)
         /\ loc' = IF x.r.tag = "Panic" THEN "panic" ELSE "mem"
    /\ UNCHANGED <<n_clock, inst, budget, fetches, reader>>

\* self.bus.load(addr, size)
BusLoadCall ==
    /\ loc = "mem"
    /\ last.op \in {"new", "store"}
    /\ \E addr \in MemAddrs, size \in MemSizes :
         \E x \in BusLoad(cpu.bus, addr, size, MemWords) :
            /\ cpu' = [cpu EXCEPT !.bus = x.bus]
            /\ last' = Access("load", "bus", addr, size, {}, x.r, cpu.bus)
            /\ loc' = IF x.r.tag = "Panic" THEN "panic" ELSE "done"
    /\ UNCHANGED <<n_clock, inst, budget, fetches, reader>>

\* self.dram.store(addr, size, value)
DramStoreCall ==
    /\ loc = "mem"
    /\ last.op = "new"
    /\ \E addr \in MemAddrs, size \in MemSizes, value \in MemValues :
         LET x == DramStore(cpu.bus.dram, addr, size, value) IN
         /\ cpu' = [cpu EXCEPT !.bus.dram = x.dram]
         /\ last' = Access("store", "dram", addr, size, value, x.r, cpu.bus)
         /\ loc' = IF x.r.tag = "Panic" THEN "panic" ELSE "mem"
    /\ UNCHANGED <<n_clock, inst, budget, fetches, reader>>

\* self.dram.load(addr, size)
DramLoadCall ==
    /\ loc = "mem"
    /\ last.op \in {"new", "store"}
    /\ \E addr \in MemAddrs, size \in MemSizes :
         \E r \in DramLoad(cpu.bus.dram, addr, size, MemWords) :
            /\ last' = Access("load", "dram", addr, size, {}, r, cpu.bus)
            /\ loc' = IF r.tag = "Panic" THEN "panic" ELSE "done"
    /\ UNCHANGED <<cpu, n_clock, inst, budget, fetches, reader>>

NextMem == BusStoreCall \/ BusLoadCall \/ DramStoreCall \/ DramLoadCall

SpecMem == InitMem /\ [][NextMem]_vars

(***************************************************************************)
(* The devices under the interpreter's calls and the UART's reader thread  *)
(* (src/src/device/uart.rs, src/src/interrupt/clint.rs, plic.rs).  The     *)
(* reader thread runs beside the interpreter: it reads a byte of standard  *)
(* input, locks the register array, waits on the condition variable while  *)
(* LSR.RX is set, then writes RHR, stores the interrupt flag and sets      *)
(* LSR.RX, and unlocks.  Uart::load and Uart::store run with the array     *)
(* locked from entry to return, so a call is one step, taken when the      *)
(* reader does not hold the lock; is_interrupting takes no lock.  The k-th *)
(* byte of input is the number k.                                          *)
(***************************************************************************)
\* the bytes of standard input
MaxInput == 2

\* is_interrupting that reads the flag and leaves it
is_interrupting_load(u) == [r |-> u.interrupt, uart |-> u]

\* Uart::is_interrupting: self.interrupt.swap(false, Acquire)
is_interrupting(u) == [r |-> u.interrupt, uart |-> [u EXCEPT !.interrupt = FALSE]]

\* a reader that never holds the lock
ReaderUnlocked == FALSE

\* the reader thread holds the lock of the register array
ReaderLocked == reader.pc \in {"flag", "set"}

\* The record of a step: what was called with what, the result, the devices,
\* the reader and `read_since` before it; and the history of the run: `written` the bytes the
\* reader has put in RHR, `seen` the last byte an 8-bit load of RHR returned,
\* `read_since` whether RHR was so loaded since the reader last wrote it,
\* `lsr_stored` whether the guest has stored to LSR, `unreturned` the stores
\* of the interrupt flag since is_interrupting last returned true
DevStep(op, addr, size, value, r, h) ==
    [op |-> op, addr |-> addr, size |-> size, value |-> value, r |-> r,
     before |-> [uart |-> cpu.bus.uart, clint |-> cpu.bus.clint,
                 plic |-> cpu.bus.plic, reader |-> reader,
                 read_since |-> last.read_since],
     written |-> h.written, seen |-> h.seen, read_since |-> h.read_since,
     lsr_stored |-> h.lsr_stored, unreturned |-> h.unreturned]

InitDev ==
    /\ cpu = NewCpu
    /\ n_clock = 0
    /\ loc = "dev"
    /\ inst = {}
    /\ budget = n_clock
    /\ fetches = 0
    /\ reader = NewReader
    /\ last = [op |-> "new", addr |-> {}, size |-> 0, value |-> {}, r |-> Ok({}),
               before |-> [uart |-> cpu.bus.uart, clint |-> cpu.bus.clint,
                           plic |-> cpu.bus.plic, reader |-> reader,
                           read_since |-> FALSE],
               written |-> 0, seen |-> 0, read_since |-> FALSE,
               lsr_stored |-> FALSE, unreturned |-> 0]

\* io::stdin().read(&mut byte): the next byte of input arrives
ReaderRead ==
    /\ loc = "dev"
    /\ reader.pc = "read"
    /\ reader.byte < MaxInput
    /\ reader' = [pc |-> "lock", byte |-> reader.byte + 1]
    /\ last' = DevStep("read", {}, 0, {}, Ok({}), last)
    /\ UNCHANGED <<cpu, n_clock, loc, inst, budget, fetches>>

\* the reader writing RHR whatever LSR.RX holds
ReaderLockUnchecked ==
    /\ loc = "dev"
    /\ reader.pc = "lock"
    /\ reader' = [reader EXCEPT !.pc = "flag"]
    /\ cpu' = [cpu EXCEPT !.bus.uart.rhr = reader.byte]
    /\ last' = DevStep("write", {}, 0, {}, Ok({}),
                       [last EXCEPT !.written = reader.byte, !.read_since = FALSE])
    /\ UNCHANGED <<n_clock, loc, inst, budget, fetches>>

\* uart.lock() (or the lock retaken when the wait ends) and the test of
\* LSR.RX: set, cvar.wait(array) gives the lock up; clear, the byte goes to
\* RHR with the lock held
ReaderLock ==
    /\ loc = "dev"
    /\ reader.pc = "lock"
    /\ IF 0 \in cpu.bus.uart.lsr
       THEN /\ reader' = [reader EXCEPT !.pc = "wait"]
            /\ last' = DevStep("wait", {}, 0, {}, Ok({}), last)
            /\ UNCHANGED cpu
       ELSE /\ reader' = [reader EXCEPT !.pc = "flag"]
            /\ cpu' = [cpu EXCEPT !.bus.uart.rhr = reader.byte]
            /\ last' = DevStep("write", {}, 0, {}, Ok({}),
                               [last EXCEPT !.written = reader.byte,
                                            !.read_since = FALSE])
    /\ UNCHANGED <<n_clock, loc, inst, budget, fetches>>

\* a wait that ends with no notification (Condvar::wait may do so)
ReaderSpuriousWake ==
    /\ loc = "dev"
    /\ reader.pc = "wait"
    /\ reader' = [reader EXCEPT !.pc = "lock"]
    /\ last' = DevStep("wake", {}, 0, {}, Ok({}), last)
    /\ UNCHANGED <<cpu, n_clock, loc, inst, budget, fetches>>

\* read_interrupt.store(true, Release)
ReaderFlag ==
    /\ loc = "dev"
    /\ reader.pc = "flag"
    /\ reader' = [reader EXCEPT !.pc = "set"]
    /\ cpu' = [cpu EXCEPT !.bus.uart.interrupt = TRUE]
    /\ last' = DevStep("flag", {}, 0, {}, Ok({}),
                       [last EXCEPT !.unreturned = @ + 1])
    /\ UNCHANGED <<n_clock, loc, inst, budget, fetches>>

\* array[UART_LSR] |= MASK_UART_LSR_RX, and the guard is dropped
ReaderSet ==
    /\ loc = "dev"
    /\ reader.pc = "set"
    /\ reader' = [reader EXCEPT !.pc = "read"]
    /\ cpu' = [cpu EXCEPT !.bus.uart.lsr = @ \cup {0}]
    /\ last' = DevStep("set", {}, 0, {}, Ok({}), last)
    /\ UNCHANGED <<n_clock, loc, inst, budget, fetches>>

\* self.uart.load(addr, size); cvar.notify_one() ends the reader's wait
UartLoadCall ==
    /\ loc = "dev"
    /\ ~ReaderLocked
    /\ \E addr \in {UART_BASE, Add(UART_BASE, {0, 2})}, size \in {8, 32} :
         \E x \in UartLoad(cpu.bus.uart, addr, size, MemWords) :
            /\ cpu' = [cpu EXCEPT !.bus.uart = x.uart]
            /\ reader' = IF x.notify /\ reader.pc = "wait"
                         THEN [reader EXCEPT !.pc = "lock"] ELSE reader
            /\ last' = DevStep("load", addr, size, {}, x.r,
                               IF x.notify
                               THEN [last EXCEPT !.seen = cpu.bus.uart.rhr,
                                                 !.read_since = TRUE]
                               ELSE last)
    /\ UNCHANGED <<n_clock, loc, inst, budget, fetches>>

\* self.uart.store(addr, size, value)
UartStoreCall ==
    /\ loc = "dev"
    /\ ~ReaderLocked
    /\ \E addr \in {UART_BASE, Add(UART_BASE, {0, 2})}, size \in {8, 32},
          value \in {{}, {0, 5, 8}} :
         LET x == UartStore(cpu.bus.uart, addr, size, value) IN
         /\ cpu' = [cpu EXCEPT !.bus.uart = x.uart]
         /\ last' = DevStep("store", addr, size, value, x.r,
                            IF size = 8 /\ addr = Add(UART_BASE, {0, 2})
                            THEN [last EXCEPT !.lsr_stored = TRUE] ELSE last)
    /\ UNCHANGED <<n_clock, loc, inst, budget, fetches, reader>>

\* self.bus.uart.is_interrupting()
IsInterruptingCall ==
    /\ loc = "dev"
    /\ LET x == is_interrupting(cpu.bus.uart) IN
         /\ cpu' = [cpu EXCEPT !.bus.uart = x.uart]
         /\ last' = DevStep("is_interrupting", {}, 0, {}, Ok(IF x.r THEN {0} ELSE {}),
                            IF x.r THEN [last EXCEPT !.unreturned = 0] ELSE last)
    /\ UNCHANGED <<n_clock, loc, inst, budget, fetches, reader>>

\* self.clint.load(addr, size) and self.clint.store(addr, size, value)
ClintCall ==
    /\ loc = "dev"
    /\ \E addr \in {CLINT_MTIMECMP, Add(CLINT_MTIMECMP, {3})}, size \in {32, 64} :
         \/ /\ last' = DevStep("clint_load", addr, size, {},
                               ClintLoad(cpu.bus.clint, addr, size), last)
            /\ UNCHANGED cpu
         \/ LET x == ClintStore(cpu.bus.clint, addr, size, {4, 40}) IN
            /\ cpu' = [cpu EXCEPT !.bus.clint = x.clint]
            /\ last' = DevStep("clint_store", addr, size, {4, 40}, x.r, last)
    /\ UNCHANGED <<n_clock, loc, inst, budget, fetches, reader>>

\* self.plic.load(addr, size) and self.plic.store(addr, size, value)
PlicCall ==
    /\ loc = "dev"
    /\ \E addr \in {PLIC_SCLAIM, Add(PLIC_SCLAIM, {2})}, size \in {32, 64} :
         \/ /\ last' = DevStep("plic_load", addr, size, {},
                               PlicLoad(cpu.bus.plic, addr, size), last)
            /\ UNCHANGED cpu
         \/ LET x == PlicStore(cpu.bus.plic, addr, size, {1, 40}) IN
            /\ cpu' = [cpu EXCEPT !.bus.plic = x.plic]
            /\ last' = DevStep("plic_store", addr, size, {1, 40}, x.r, last)
    /\ UNCHANGED <<n_clock, loc, inst, budget, fetches, reader>>

NextDev ==
    \/ ReaderRead \/ ReaderLock \/ ReaderSpuriousWake \/ ReaderFlag \/ ReaderSet
    \/ UartLoadCall \/ UartStoreCall \/ IsInterruptingCall \/ ClintCall \/ PlicCall

SpecDev == InitDev /\ [][NextDev]_vars

\* SpecDev with the reader thread scheduled fairly: a reader that can take
\* the lock, store the flag or set LSR.RX does so
FairSpecDev ==
    SpecDev /\ WF_vars(ReaderLock) /\ WF_vars(ReaderFlag) /\ WF_vars(ReaderSet)

\* every instruction word of the images takes an arm of execute the model has
ProgramModelled == \A w \in Program \cup ExecProgram \cup AluProgram : Modelled(w)

(***************************************************************************)
(* Two ticks of run_cpu on a guest whose image holds the instructions that *)
(* trap and the two trap returns: a trap in the first tick may be followed *)
(* in the second by the return from it.                                    *)
(***************************************************************************)
TrapProgram == {I_ECALL, I_EBREAK, I_SRET, I_MRET, I_ADDI_X0}

TrapConfigs ==
    {TickConfig(m, st, dg, <<{1, 3, 5, 7, 9, 11}, {1, 7}>>, <<{12}, {0, 13}>>, {},
                FALSE, FALSE) :
        m \in {User, Supervisor, Machine}, st \in TickStatus, dg \in TickDeleg}

InitTrap ==
    /\ cpu \in {[TickCpu(k) EXCEPT !.bus.dram.code = TrapProgram] : k \in TrapConfigs}
    /\ n_clock = 2
    /\ loc = "fetch"
    /\ inst = {}
    /\ budget = n_clock
    /\ fetches = 0
    /\ last = Step("new", cpu, NoException, "None")
    /\ reader = NewReader

SpecTrap == InitTrap /\ [][Next]_vars

(***************************************************************************)
(* Cpu::translate on page tables the environment has laid out: a root      *)
(* table, a level-1 table and a level-0 table, each with the one entry the *)
(* walk of the address reads.  `mem` is the 64-bit words the bus returns;  *)
(* an address outside it is one the bus maps no region to.                 *)
(***************************************************************************)
\* self.bus.load(a, 64) of a page-table entry
PteLoad(mem, a) ==
    IF a \in DOMAIN mem THEN Ok(mem[a]) ELSE Err(Exception("LoadAccessFault", a))

\* vpn[i] of translate: L0 = (addr >> 12) & 0x1ff, L1 = (addr >> 21) & 0x1ff,
\* L2 = (addr >> 30) & 0x1ff
Vpn(addr, i) == And(Shr(addr, 12 + 9 * i), 0..8)

\* a leaf address that takes the whole ppn at every level
LeafAddressBase(pte, i, addr, access_type) ==
    Ok(Or(Shl(And(Shr(pte, 10), 0..43), 12), And(addr, 0..11)))

\* the match on i after the loop of translate
LeafAddress(pte, i, addr, access_type) ==
    LET ppn1 == And(Shr(pte, 19), 0..8)
        ppn2 == And(Shr(pte, 28), 0..25)
        offset == And(addr, 0..11)
    IN CASE i = 0 -> Ok(Or(Shl(And(Shr(pte, 10), 0..43), 12), offset))
         [] i = 1 -> Ok(Or(Or(Shl(ppn2, 30), Shl(ppn1, 21)),
                           Or(Shl(Vpn(addr, 0), 12), offset)))
         [] i = 2 -> Ok(Or(Or(Shl(ppn2, 30), Shl(Vpn(addr, 1), 21)),
                           Or(Shl(Vpn(addr, 0), 12), offset)))
         [] OTHER -> Err(PageFault(access_type, addr))

\* the loop of translate from table a at level i
RECURSIVE WalkFrom(_, _, _, _, _)
WalkFrom(mem, a, i, addr, access_type) ==
    LET x == PteLoad(mem, Add(a, Shl(Vpn(addr, i), 3))) IN
    IF x.tag = "Err" THEN x
    ELSE LET pte == x.v
             v == 0 \in pte
             r == 1 \in pte
             w == 2 \in pte
             xx == 3 \in pte
         IN CASE ~v \/ (~r /\ w) -> Err(PageFault(access_type, addr))
              [] r \/ xx -> LeafAddress(pte, i, addr, access_type)
              [] i - 1 < 0 -> Err(PageFault(access_type, addr))
              [] OTHER -> WalkFrom(mem, Shl(And(Shr(pte, 10), 0..43), PAGE_SIZE_LOG2),
                                   i - 1, addr, access_type)

\* Cpu::translate with the page tables in mem
Walk(c, mem, addr, access_type) ==
    IF ~c.enable_paging THEN Ok(addr)
    ELSE WalkFrom(mem, c.page_table, 2, addr, access_type)

\* where the environment keeps its tables: the root, the level-1 table and
\* the level-0 table
WalkRoot == {13}
WalkTable1 == {14}
WalkTable0 == {12, 14}

\* a pointer entry to the table at a (V = 1, R = W = X = 0)
PtePointer(a) == {0} \cup Shl(Shr(a, 12), 10)

\* the entries a table slot may hold: invalid, W without R, a pointer to
\* the table below or to a page no region maps, and leaves with R, with X
\* only and with R and reserved bits, whose ppn has a bit in each of its
\* three fields
WalkPtes(below) ==
    {{}, {0, 2}, {1, 2, 10}, PtePointer(below), PtePointer({40}),
     {0, 1, 10, 19, 28, 53}, {0, 3, 11, 20, 29}, {0, 1, 2, 10, 28, 54, 60}}

\* the virtual addresses translated
WalkAddrs == {{}, {0, 5, 12, 21, 30}, {3, 13, 22, 31, 38, 40}}

\* the memory the walk of addr reads: one entry per table
WalkMem(addr, pte2, pte1, pte0) ==
    [a \in {Add(WalkRoot, Shl(Vpn(addr, 2), 3)), Add(WalkTable1, Shl(Vpn(addr, 1), 3)),
            Add(WalkTable0, Shl(Vpn(addr, 0), 3))} |->
        CASE a = Add(WalkRoot, Shl(Vpn(addr, 2), 3)) -> pte2
          [] a = Add(WalkTable1, Shl(Vpn(addr, 1), 3)) -> pte1
          [] OTHER -> pte0]

InitWalk ==
    /\ \E paging \in BOOLEAN :
          cpu = [NewCpu EXCEPT !.page_table = WalkRoot, !.enable_paging = paging]
    /\ n_clock = 0
    /\ loc = "walk"
    /\ inst = {}
    /\ budget = n_clock
    /\ fetches = 0
    /\ reader = NewReader
    /\ \E addr \in WalkAddrs, access_type \in {"Instruction", "Load", "Store"},
          pte2 \in WalkPtes(WalkTable1), pte1 \in WalkPtes(WalkTable0),
          pte0 \in WalkPtes({15}) :
          last = [op |-> "new", addr |-> addr, access_type |-> access_type,
                  mem |-> WalkMem(addr, pte2, pte1, pte0), r |-> Ok({})]

\* self.translate(addr, access_type)
TranslateCall ==
    /\ loc = "walk"
    /\ last' = [last EXCEPT !.op = "translate",
                            !.r = Walk(cpu, last.mem, last.addr, last.access_type)]
    /\ loc' = "done"
    /\ UNCHANGED <<cpu, n_clock, inst, budget, fetches, reader>>

NextWalk == TranslateCall

SpecWalk == InitWalk /\ [][NextWalk]_vars

(***************************************************************************)
(* The atomic memory operations: one tick of the run loop over a program    *)
(* of AMO words (rd = t2, rs1 = s0, rs2 = t1), a load and a store of the    *)
(* same address, and the words that trap without touching memory.  s0      *)
(* points at the last eight bytes of DRAM, at the timer's compare register, *)
(* at the UART and at an address no device answers.                         *)
(***************************************************************************)
\* the address of the first of the bytes of DRAM the model keeps
AmoDram == Sub(DRAM_END, {0, 1, 2})

AmoAddrs == {AmoDram, CLINT_MTIMECMP, UART_BASE, {}}

\* what the cell at the address holds before the instruction
AmoCells == {{0, 2}, {1, 31, 33}}

\* regs[rs2]
AmoOperands == {{0}, {0, 32}, {0, 1, 31}, Bits}

AmoProgram ==
    {EncR(f * 4, 6, 8, w, 7, 47) : f \in AmoForms \cup {5}, w \in {2, 3}}
        \cup {EncI(0, 8, 2, 7, 3), EncS(6, 8, 2, 35), I_ECALL, I_EBREAK}

AmoCpus ==
    {[NewCpu EXCEPT !.csr = [a \in CsrAddrs |->
                                CASE a = MTVEC -> {12}
                                  [] a = STVEC -> {13}
                                  [] OTHER -> {}],
                    !.regs[7] = {4}, !.regs[8] = s0, !.regs[6] = t1,
                    !.enable_paging = pg, !.page_table = DRAM_BASE,
                    !.bus.clint.mtimecmp = m,
                    !.bus.dram.data =
                        [k \in DramWindow |->
                            Val(And(Shr(m, 8 * (k - Val(Sub(AmoDram, DRAM_BASE)))), 0..7))],
                    !.bus.dram.code = AmoProgram]
     : s0 \in AmoAddrs, t1 \in AmoOperands, m \in AmoCells, pg \in BOOLEAN}

InitAmo ==
    /\ cpu \in AmoCpus
    /\ n_clock = 1
    /\ loc = "fetch"
    /\ inst = {}
    /\ budget = n_clock
    /\ fetches = 0
    /\ last = Step("new", cpu, NoException, "None")
    /\ reader = NewReader

SpecAmo == InitAmo /\ [][Next]_vars

\* every word of the AMO program takes an arm of execute the model has
AmoProgramModelled == \A w \in AmoProgram : Modelled(w)

(***************************************************************************)
(* The virtio disk transaction.  The device (device/virtio) keeps the disk  *)
(* image, the base address of the queue and the id get_new_id() counts; the *)
(* record `v` holds them.  The queue, the request header and the data      *)
(* buffer are guest memory, read through the bus: the bytes the model of    *)
(* DRAM does not keep are drawn from `words`.  The layout is the one of the *)
(* virtio structures: a descriptor is {addr: u64, len: u32, flags: u16,     *)
(* next: u16}, the rings are {flags: u16, idx: u16, ring: [u16]}, the       *)
(* request header is {iotype: u32, reserved: u32, sector: u64}.            *)
(***************************************************************************)
DESC_NUM == {3}
DESC_SIZE == {4}
SECTOR_SIZE == {9}
PAGE_SIZE == {PAGE_SIZE_LOG2}

\* a * p for p a power of two
Times(a, p) == Shl(a, CHOOSE k \in p : TRUE)
VIRTIO_BLK_T_IN == {}
VIRTIO_BLK_T_OUT == {0}

\* the offsets of the disk image the device holds
DiskOffsets == 0..7

\* the values .unwrap() lets through, and whether it can abort
Unwrapped(bus, addr, size, words) ==
    {x.r.v : x \in {y \in BusLoad(bus, addr, size, words) : y.r.tag = "Ok"}}

Aborts(bus, addr, size, words) ==
    \E x \in BusLoad(bus, addr, size, words) : x.r.tag # "Ok"

\* the positions of the two loops of Cpu::disk_access
DiskIndex(chain, i) == Add(Times(chain.blk_sector, SECTOR_SIZE), W(i))

\* VIRTIO_BLK_T_OUT: for i in 0..len1, load a byte and write_disk it
RECURSIVE CopyOut(_, _, _, _, _)
CopyOut(bus, v, chain, i, words) ==
    IF ~Lt(W(i), chain.len1) THEN {[tag |-> "Ok", bus |-> bus, v |-> v]}
    ELSE UNION {CASE x.r.tag # "Ok" -> {[tag |-> "Panic", bus |-> x.bus, v |-> v]}
                  [] ~Lt(DiskIndex(chain, i), W(Cardinality(DiskOffsets))) ->
                        {[tag |-> "Panic", bus |-> x.bus, v |-> v]}
                  [] OTHER ->
                        CopyOut(x.bus,
                                [v EXCEPT !.disk[Val(DiskIndex(chain, i))] =
                                              Val(And(x.r.v, 0..7))],
                                chain, i + 1, words)
                : x \in BusLoad(bus, Add(chain.addr1, W(i)), 8, words)}

\* VIRTIO_BLK_T_IN: for i in 0..len1, read_disk a byte and store it
RECURSIVE CopyIn(_, _, _, _)
CopyIn(bus, v, chain, i) ==
    IF ~Lt(W(i), chain.len1) THEN {[tag |-> "Ok", bus |-> bus, v |-> v]}
    ELSE IF ~Lt(DiskIndex(chain, i), W(Cardinality(DiskOffsets)))
    THEN {[tag |-> "Panic", bus |-> bus, v |-> v]}
    ELSE LET x == BusStore(bus, Add(chain.addr1, W(i)), 8,
                           W(v.disk[Val(DiskIndex(chain, i))]))
         IN IF x.r.tag # "Ok" THEN {[tag |-> "Panic", bus |-> x.bus, v |-> v]}
            ELSE CopyIn(x.bus, v, chain, i + 1)

\* Cpu::disk_access on the bus: every outcome the call can have.  Each
\* bus.load(..).unwrap() aborts on an Err.
DiskAccess(bus, v, words) ==
    LET desc_addr == v.desc_addr
        avail_addr == Add(desc_addr, Times(DESC_NUM, DESC_SIZE))
        used_addr == Add(desc_addr, PAGE_SIZE)
        none == [idx |-> {}, index |-> {}, req_addr |-> {}, blk_sector |-> {},
                 iotype |-> {}, next0 |-> {}, addr1 |-> {}, len1 |-> {}]
        Desc(n) == Add(desc_addr, Times(n, DESC_SIZE))
        \* the address each load reads, given the fields loaded before it
        AIdx(s) == Add(avail_addr, {1})
        AIndex(s) == Add(avail_addr, Add({2}, Shl(And(s.idx, 0..2), 1)))
        AReq(s) == Desc(s.index)
        ASector(s) == Add(s.req_addr, {3})
        AType(s) == s.req_addr
        ANext(s) == Add(Desc(s.index), {1, 2, 3})
        AAddr1(s) == Desc(s.next0)
        ALen1(s) == Add(Desc(s.next0), {3})
        panicked == [tag |-> "Panic", bus |-> bus, v |-> v, chain |-> none,
                     used |-> [addr |-> {}, value |-> {}], failed |-> <<>>]
        Finish(chain, c) ==
            \* get_new_id(), then the store of new_id % 8 to the used ring's idx
            IF c.tag = "Panic"
            THEN [panicked EXCEPT !.bus = c.bus, !.v = c.v, !.chain = chain]
            ELSE LET new_id == c.v.id + 1
                     x == BusStore(c.bus, Add(used_addr, {1}), 16, W(new_id % 8))
                 IN [tag |-> IF x.r.tag = "Ok" THEN "Ok" ELSE "Panic",
                     bus |-> x.bus, v |-> [c.v EXCEPT !.id = new_id],
                     chain |-> chain,
                     used |-> [addr |-> Add(used_addr, {1}), value |-> W(new_id % 8)],
                     failed |-> <<>>]
        \* match iotype
        Copy(chain) ==
            CASE chain.iotype = VIRTIO_BLK_T_OUT ->
                    {Finish(chain, c) : c \in CopyOut(bus, v, chain, 0, words)}
              [] chain.iotype = VIRTIO_BLK_T_IN ->
                    {Finish(chain, c) : c \in CopyIn(bus, v, chain, 0)}
              \* unreachable!()
              [] OTHER -> {[panicked EXCEPT !.chain = chain]}
        \* one bus.load(..).unwrap() into field f, then the rest of the call
        Read(s, f, a, size, Rest(_)) ==
            (IF Aborts(bus, a, size, words)
             THEN {[panicked EXCEPT !.failed = <<a>>]} ELSE {})
            \cup UNION {Rest([s EXCEPT ![f] = x]) : x \in Unwrapped(bus, a, size, words)}
        R8(s) == Read(s, "len1", ALen1(s), 32, Copy)
        R7(s) == Read(s, "addr1", AAddr1(s), 64, R8)
        R6(s) == Read(s, "next0", ANext(s), 16, R7)
        R5(s) == Read(s, "iotype", AType(s), 32, R6)
        R4(s) == Read(s, "blk_sector", ASector(s), 64, R5)
        R3(s) == Read(s, "req_addr", AReq(s), 64, R4)
        R2(s) == Read(s, "index", AIndex(s), 16, R3)
    IN Read(none, "idx", AIdx(none), 16, R2)

\* where the guest may have put its queue: the first pages of DRAM, the
\* static region, the CLINT, and an address no device answers
DiskQueues == {DRAM_BASE, Add(DRAM_BASE, {12}), Add(DRAM_BASE, {13}), {13}, CLINT_BASE, {}}

\* what the queue, the header and the descriptors may hold: small indices,
\* the two request types, the address of a header in DRAM and the address of
\* the bytes of DRAM the model keeps
DiskWords == {{}, {0}, {1}, Add(DRAM_BASE, {14}), AmoDram}

DiskImages == {[k \in DiskOffsets |-> IF k \in on THEN 255 - k ELSE 0] : on \in {{}, {0, 1}, DiskOffsets}}

InitDisk ==
    /\ cpu \in {[NewCpu EXCEPT !.bus.dram.data = [k \in DramWindow |-> (k % 7) + b]]
                : b \in {1, 2}}
    /\ n_clock = 1
    /\ loc = "disk"
    /\ inst = {}
    /\ budget = n_clock
    /\ fetches = 0
    /\ \E q \in DiskQueues, img \in DiskImages, id \in 0..7 :
          last = [op |-> "new", tag |-> "Ok",
                  v |-> [desc_addr |-> q, disk |-> img, id |-> id],
                  before |-> [bus |-> cpu.bus,
                              v |-> [desc_addr |-> q, disk |-> img, id |-> id]],
                  chain |-> [idx |-> {}, index |-> {}, req_addr |-> {},
                             blk_sector |-> {}, iotype |-> {}, next0 |-> {},
                             addr1 |-> {}, len1 |-> {}],
                  used |-> [addr |-> {}, value |-> {}], failed |-> <<>>]
    /\ reader = NewReader

\* self.disk_access()
DiskAccessCall ==
    /\ loc = "disk"
    /\ \E x \in DiskAccess(cpu.bus, last.v, DiskWords) :
         /\ cpu' = [cpu EXCEPT !.bus = x.bus]
         /\ last' = [last EXCEPT !.op = "disk_access", !.tag = x.tag, !.v = x.v,
                                 !.chain = x.chain, !.used = x.used,
                                 !.failed = x.failed]
         /\ loc' = IF x.tag = "Panic" THEN "panic" ELSE "done"
    /\ UNCHANGED <<n_clock, inst, budget, fetches, reader>>

NextDisk == DiskAccessCall

SpecDisk == InitDisk /\ [][NextDisk]_vars

(***************************************************************************)
(* The properties.  Each is read off the history variable `last`: the step *)
(* just taken, the hart before it, the exception the iteration handled     *)
(* and the interrupt its poll returned.                                    *)
(***************************************************************************)
\* the trap table of the specification (section 7): code and fatality
TrapTable ==
    [k \in ExceptionKinds |->
        CASE k = "InstructionAddrMisaligned" -> [code |-> 0, fatal |-> TRUE]
          [] k = "InstructionAccessFault" -> [code |-> 1, fatal |-> TRUE]
          [] k = "IllegalInstruction" -> [code |-> 2, fatal |-> TRUE]
          [] k = "Breakpoint" -> [code |-> 3, fatal |-> FALSE]
          [] k = "LoadAccessMisaligned" -> [code |-> 4, fatal |-> FALSE]
          [] k = "LoadAccessFault" -> [code |-> 5, fatal |-> TRUE]
          [] k = "StoreAMOAddrMisaligned" -> [code |-> 6, fatal |-> TRUE]
          [] k = "StoreAMOAccessFault" -> [code |-> 7, fatal |-> TRUE]
          [] k = "EnvironmentCallFromUMode" -> [code |-> 8, fatal |-> FALSE]
          [] k = "EnvironmentCallFromSMode" -> [code |-> 9, fatal |-> FALSE]
          [] k = "EnvironmentCallFromMMode" -> [code |-> 11, fatal |-> FALSE]
          [] k = "InstructionPageFault" -> [code |-> 12, fatal |-> FALSE]
          [] k = "LoadPageFault" -> [code |-> 13, fatal |-> FALSE]
          [] k = "StoreAMOPageFault" -> [code |-> 14, fatal |-> FALSE]]

\* the register family of the mode a trap was taken to
FamilyOf(mode) == IF mode = Supervisor THEN SFamily ELSE MFamily

\* the step just taken was a fetch or an execute that raised last.e, and
\* handle_exception has run
ExceptionHandled == last.op \in {"fetch", "execute"} /\ last.e.kind # "None"

\* the step just taken was a poll that returned last.irq, and
\* handle_interrupt has run to its end
InterruptHandled == last.op = "poll" /\ last.irq # "None" /\ loc # "panic"

\* the hart c has interrupts globally masked: Machine mode with MSTATUS.MIE
\* (bit 3) clear, or Supervisor mode with SSTATUS.SIE (bit 1) clear
GloballyMasked(c) ==
    \/ c.mode = Machine /\ 3 \notin c.csr[MSTATUS]
    \/ c.mode = Supervisor /\ 1 \notin c.csr[MSTATUS]

\* the trap just handled went to Supervisor mode (s) or to Machine mode: the
\* mode is the target, the target family holds the trap's pc and cause, and
\* the other family's registers and status bits are as they were
TrapTakenTo(s, cause) ==
    LET f == IF s THEN SFamily ELSE MFamily
        o == IF s THEN MFamily ELSE SFamily
        own == f.MASK_IE \cup f.MASK_PIE \cup f.MASK_PP
    IN /\ cpu.mode = IF s THEN Supervisor ELSE Machine
       /\ cpu.csr[f.EPC] = last.before.pc
       /\ cpu.csr[f.CAUSE] = W(cause)
       /\ \A a \in {o.EPC, o.CAUSE, o.TVAL, o.TVEC} :
            cpu.csr[a] = last.before.csr[a]
       /\ cpu.csr[MSTATUS] \ own = last.before.csr[MSTATUS] \ own

\* C1: after handle_exception for an exception e raised at pc p by fetch or
\* by execute, the register family of the mode the trap was taken to holds
\* EPC = p, CAUSE = the code of e in the trap table and TVAL = the value e
\* carries, and the pc is that family's TVEC with its low two bits cleared.
C1_ExceptionEntry ==
    ExceptionHandled =>
        LET f == FamilyOf(cpu.mode) IN
        /\ cpu.csr[f.EPC] = last.before.pc
        /\ cpu.csr[f.CAUSE] = W(TrapTable[last.e.kind].code)
        /\ cpu.csr[f.TVAL] = last.e.val
        /\ cpu.pc = cpu.csr[f.TVEC] \ {0, 1}

\* an exception was taken to Supervisor mode through an STVEC whose mode
\* bits are set, from a pc that is not the vector
C1_Witness ==
    /\ ExceptionHandled
    /\ cpu.mode = Supervisor
    /\ cpu.csr[STVEC] \cap {0, 1} # {}
    /\ cpu.csr[SEPC] = last.before.pc
    /\ cpu.pc # last.before.pc

\* C2: a trap with cause c is taken to Supervisor mode with the S family if
\* and only if the mode before it was User or Supervisor and bit c of
\* MEDELEG (an exception) or MIDELEG (an interrupt) was set; otherwise it is
\* taken to Machine mode with the M family.  The mode after the handler is
\* the target.
C2_Delegation ==
    /\ ExceptionHandled =>
        LET c == TrapTable[last.e.kind].code IN
        TrapTakenTo(last.before.mode \in {User, Supervisor}
                        /\ c \in last.before.csr[MEDELEG], c)
    /\ InterruptHandled =>
        LET c == InterruptCode(last.irq) IN
        TrapTakenTo(last.before.mode \in {User, Supervisor}
                        /\ c \in last.before.csr[MIDELEG], c)

\* a delegated exception raised in Machine mode was taken to Machine mode
C2_Witness ==
    /\ ExceptionHandled
    /\ last.before.mode = Machine
    /\ TrapTable[last.e.kind].code \in last.before.csr[MEDELEG]
    /\ cpu.mode = Machine
    /\ cpu.csr[MEPC] = last.before.pc

\* C3: when the run has stopped, x0 reads as zero through reg("x0"),
\* reg("zero") and regs[0], whatever instruction ran last.
C3_X0ReadsZero ==
    loc = "done" =>
        /\ reg(cpu, "x0") = {}
        /\ reg(cpu, "zero") = {}
        /\ cpu.regs[0] = {}

FatalCodes == {0, 1, 2, 5, 6, 7}

\* the trap vector of the mode the hart is in
VectorBase == cpu.csr[FamilyOf(cpu.mode).TVEC] \ {0, 1}

PriorityTable ==
    <<[bit |-> 11, i |-> "MachineExternalInterrupt"],
      [bit |-> 3, i |-> "MachineSoftwareInterrupt"],
      [bit |-> 7, i |-> "MachineTimerInterrupt"],
      [bit |-> 9, i |-> "SupervisorExternalInterrupt"],
      [bit |-> 1, i |-> "SupervisorSoftwareInterrupt"],
      [bit |-> 5, i |-> "SupervisorTimerInterrupt"]>>

\* MIP as the scan of a poll of hart c reads it: a device that raised its
\* flag has set SEIP
ScannedMip(c) ==
    c.csr[MIP] \cup (IF c.bus.uart.interrupt \/ c.bus.virtio_blk.interrupt
                     THEN {9} ELSE {})

\* C6: a poll that is not masked returns the first interrupt, in the order
\* MEIP, MSIP, MTIP, SEIP, SSIP, STIP, whose bit is set in MIE and in MIP
\* (MIP as the scan reads it), each bit with its own kind; it clears that
\* bit of MIP and no other; with none of the six bits in MIE & MIP it
\* returns none and leaves MIP as the scan read it.
C6_Priority ==
    (last.op = "poll" /\ ~GloballyMasked(last.before)) =>
        LET mip == ScannedMip(last.before)
            pending == mip \cap last.before.csr[MIE]
            hits == {n \in 1..6 : PriorityTable[n].bit \in pending}
        IN IF hits = {}
           THEN last.irq = "None" /\ cpu.csr[MIP] = mip
           ELSE LET n == CHOOSE h \in hits : \A g \in hits : h <= g IN
                /\ last.irq = PriorityTable[n].i
                /\ cpu.csr[MIP] = mip \ {PriorityTable[n].bit}

\* a poll returned the supervisor software interrupt while the supervisor
\* timer interrupt was pending too, and left the timer bit set
C6_Witness ==
    /\ last.op = "poll"
    /\ ~GloballyMasked(last.before)
    /\ last.irq = "SupervisorSoftwareInterrupt"
    /\ {1, 5} \subseteq (last.before.csr[MIP] \cap last.before.csr[MIE])
    /\ 5 \in cpu.csr[MIP]
    /\ 1 \notin cpu.csr[MIP]

\* C7: a poll in Machine mode with MSTATUS.MIE clear, or in Supervisor mode
\* with SSTATUS.SIE clear, returns none and changes nothing (the device
\* flags, the PLIC claim, the disk, the CSRs, the pc and the mode are as
\* before).  A poll in User mode is never masked: it takes a raised UART
\* flag and returns an interrupt when one is enabled and pending.
C7_MaskedPoll ==
    /\ (last.op = "poll" /\ GloballyMasked(last.before)) =>
        /\ last.irq = "None"
        /\ cpu.bus = last.before.bus
        /\ cpu.csr = last.before.csr
        /\ cpu.pc = last.before.pc
        /\ cpu.mode = last.before.mode
    /\ (last.op = "poll" /\ last.before.mode = User) =>
        /\ last.before.bus.uart.interrupt => ~cpu.bus.uart.interrupt
        /\ (last.before.csr[MIE] \cap last.before.csr[MIP]
                \cap {1, 3, 5, 7, 9, 11} # {}) => last.irq # "None"

\* a poll in Supervisor mode with SIE clear, with both device flags raised
\* and interrupts enabled and pending
C7_Witness ==
    /\ last.op = "poll"
    /\ last.before.mode = Supervisor
    /\ 1 \notin last.before.csr[MSTATUS]
    /\ last.before.bus.uart.interrupt
    /\ last.before.bus.virtio_blk.interrupt
    /\ last.before.csr[MIE] \cap last.before.csr[MIP] # {}
    /\ cpu.bus.uart.interrupt

\* C8: after handle_interrupt for cause c, the pc is the base of the
\* selected TVEC when its low bits are 0 and the base + 4 * c when they are
\* 1, and TVAL of the selected family is 0.
C8_InterruptVector ==
    InterruptHandled =>
        LET f == FamilyOf(cpu.mode)
            tvec == cpu.csr[f.TVEC]
            base == tvec \ {0, 1}
            c == InterruptCode(last.irq)
        IN /\ tvec \cap {0, 1} = {} => cpu.pc = base
           /\ tvec \cap {0, 1} = {0} => cpu.pc = Add(base, W(4 * c))
           /\ cpu.csr[f.TVAL] = {}

C10_Mret ==
    (last.op = "execute" /\ inst = I_MRET) =>
        LET old == last.before.csr[MSTATUS]
            new == cpu.csr[MSTATUS]
            mpp == (IF 11 \in old THEN 1 ELSE 0) + (IF 12 \in old THEN 2 ELSE 0)
        IN /\ cpu.mode = mpp
           /\ 3 \in new <=> 7 \in old
           /\ 7 \in new
           /\ new \cap {11, 12} = {}
           /\ 17 \in new <=> (17 \in old /\ mpp = Machine)
           /\ new \ {3, 7, 11, 12, 17} = old \ {3, 7, 11, 12, 17}
           /\ cpu.pc = last.before.csr[MEPC] \ {0, 1}

\* C11: after sret the mode is the old SPP bit, SIE is the old SPIE, SPIE is
\* 1, SPP is 0, every other bit of MSTATUS is as it was, and the pc is SEPC
\* with its low two bits cleared.
C11_Sret ==
    (last.op = "execute" /\ inst = I_SRET) =>
        LET old == last.before.csr[MSTATUS]
            new == cpu.csr[MSTATUS]
        IN /\ cpu.mode = (IF 8 \in old THEN Supervisor ELSE User)
           /\ 1 \in new <=> 5 \in old
           /\ 5 \in new
           /\ 8 \notin new
           /\ new \ {1, 5, 8} = old \ {1, 5, 8}
           /\ cpu.pc = last.before.csr[SEPC] \ {0, 1}
           /\ \A a \in CsrAddrs \ {MSTATUS} : cpu.csr[a] = last.before.csr[a]

\* an sret with SPP = Supervisor, SPIE set and SIE clear, with machine-level
\* bits (MPP, MPRV) in MSTATUS
C11_Witness ==
    /\ last.op = "execute"
    /\ inst = I_SRET
    /\ {5, 8, 11, 17} \subseteq last.before.csr[MSTATUS]
    /\ cpu.mode = Supervisor
    /\ 8 \notin cpu.csr[MSTATUS]

\* C12: in every reachable state the privilege mode is User (0b00),
\* Supervisor (0b01) or Machine (0b11), never 0b10.
C12_ModeLegal == cpu.mode \in {User, Supervisor, Machine}

\* inst is a Zicsr instruction on the CSR a
ZicsrOn(a) ==
    /\ Field(inst, 0, 7) = 115
    /\ Field(inst, 12, 3) \in {1, 2, 3, 5, 6, 7}
    /\ Field(inst, 20, 12) = a

\* the word the Zicsr instruction inst writes when it read t: the source
\* operand (rs1, or the 5-bit immediate) written, set or cleared
ZicsrValue(t, regs) ==
    LET f == Field(inst, 12, 3)
        rs1 == Field(inst, 15, 5)
        src == IF f > 4 THEN W(rs1) ELSE IF rs1 = 0 THEN {} ELSE regs[rs1]
    IN CASE f % 4 = 1 -> src
         [] f % 4 = 2 -> t \cup src
         [] f % 4 = 3 -> t \ src

\* C13: a Zicsr instruction on SSTATUS (on SIE) reads MSTATUS & MASK_SSTATUS
\* (MIE & MIDELEG) into rd and writes only the MASK_SSTATUS bits of MSTATUS
\* (the MIDELEG bits of MIE), to those of the written word; every other bit
\* and every other CSR is as it was.
C13_ShadowViews ==
    \A a \in {SSTATUS, SIE} :
        (last.op = "execute" /\ ZicsrOn(a)) =>
            LET old == last.before.csr
                target == IF a = SSTATUS THEN MSTATUS ELSE MIE
                mask == IF a = SSTATUS THEN MASK_SSTATUS ELSE old[MIDELEG]
                t == old[target] \cap mask
                v == ZicsrValue(t, last.before.regs)
                rd == Field(inst, 7, 5)
            IN /\ last.e = NoException
               /\ rd # 0 => cpu.regs[rd] = t
               /\ cpu.csr[target] = (old[target] \ mask) \cup (v \cap mask)
               /\ \A x \in CsrAddrs \ {target} : cpu.csr[x] = old[x]

\* csrrw t2, sstatus, t0 with MASK_SSTATUS bits to change and other bits to
\* keep, and csrrwi zero, sstatus, 4 on mstatus = 1
C13_Witness ==
    /\ last.op = "execute"
    /\ ZicsrOn(SSTATUS)
    /\ \/ /\ Field(inst, 12, 3) = 1
          /\ {3, 7, 8} \subseteq last.before.csr[MSTATUS]
          /\ {3, 7, 19} \subseteq cpu.csr[MSTATUS]
          /\ 8 \notin cpu.csr[MSTATUS]
          /\ 8 \in cpu.regs[7]
       \/ /\ inst = EncI(SSTATUS, 4, 5, 0, 115)
          /\ last.before.csr[MSTATUS] = {0}
          /\ cpu.csr[MSTATUS] = {0}
          /\ CsrLoad(cpu.csr, SSTATUS) = {}

\* C14: a Zicsr instruction that writes v to SIP leaves MIP at
\* (old MIP & ~MIDELEG) | (v & MIDELEG): the bits of MIP that MIDELEG does not
\* delegate keep their MIP values, MIE is unchanged, and SIP then reads
\* v & MIDELEG.
C14_SipWrite ==
    (last.op = "execute" /\ ZicsrOn(SIP)) =>
        LET old == last.before.csr
            v == ZicsrValue(old[MIP] \cap old[MIDELEG], last.before.regs)
        IN /\ cpu.csr[MIP] = (old[MIP] \ old[MIDELEG]) \cup (v \cap old[MIDELEG])
           /\ cpu.csr[MIE] = old[MIE]
           /\ CsrLoad(cpu.csr, SIP) = v \cap old[MIDELEG]

\* C15: in every reachable state enable_paging is true exactly when
\* SATP >> 60 is 8 and page_table is (SATP & MASK_PPN) * 4096, whatever
\* instruction (a Zicsr form on SATP or on another CSR, a trap, a return) ran.
C15_PagingCache ==
    /\ cpu.enable_paging <=> (cpu.csr[SATP] \cap 60..63 = {63})
    /\ cpu.page_table = {i + 12 : i \in cpu.csr[SATP] \cap 0..43}

\* a Zicsr instruction on SATP has turned paging on, or off
C15_Witness ==
    /\ last.op = "execute"
    /\ ZicsrOn(SATP)
    /\ cpu.csr[SATP] # last.before.csr[SATP]
    /\ \/ cpu.enable_paging /\ 63 \notin last.before.csr[SATP]
             /\ cpu.page_table = {13, 15, 17, 31}
       \/ ~cpu.enable_paging /\ last.before.csr[SATP] = {19, 63}
             /\ Field(inst, 12, 3) = 2 /\ 63 \in cpu.csr[SATP]

\* C16: a fetch at pc that fails raises InstructionPageFault(pc) or
\* InstructionAccessFault(pc) and no other trap: with paging off translate
\* returns the address unchanged (no page fault), and with paging on it returns
\* a physical address or the page fault of the access, also when a page-table
\* entry lies where the bus maps nothing.
C16_TranslateFaults ==
    (last.op = "fetch" /\ last.e # NoException) =>
        /\ last.e \in {Exception("InstructionPageFault", last.before.pc),
                       Exception("InstructionAccessFault", last.before.pc)}
        /\ last.e.kind = "InstructionPageFault" => 63 \in last.before.csr[SATP]

\* the B-immediate of inst: imm[12|10:5] = inst[31:25], imm[4:1|11] = inst[11:7]
ImmB ==
    SignExtend({i - 20 : i \in inst \cap 25..30} \cup {i - 7 : i \in inst \cap 8..11}
                   \cup (IF 7 \in inst THEN {11} ELSE {})
                   \cup (IF 31 \in inst THEN {12} ELSE {}), 13)

\* the J-immediate of inst: imm[20|10:1|11|19:12] = inst[31:12]
ImmJ ==
    SignExtend({i - 20 : i \in inst \cap 21..30} \cup (inst \cap 12..19)
                   \cup (IF 20 \in inst THEN {11} ELSE {})
                   \cup (IF 31 \in inst THEN {20} ELSE {}), 21)

\* the branch inst is taken on the registers regs
BranchTaken(regs) ==
    LET a == regs[Field(inst, 15, 5)]
        b == regs[Field(inst, 20, 5)]
        f == Field(inst, 12, 3)
    IN CASE f = 0 -> a = b
         [] f = 1 -> a # b
         [] f = 4 -> SLt(a, b)
         [] f = 5 -> ~SLt(a, b)
         [] f = 6 -> Lt(a, b)
         [] f = 7 -> ~Lt(a, b)

\* C20: an instruction that executes at pc p without a trap leaves the pc at
\* p + 4, but a taken branch (p + B-imm), JAL (p + J-imm), JALR ((rs1 + I-imm)
\* & ~1 with the rs1 of before the instruction, and rd = p + 4), SRET and MRET.
C20_NextPc ==
    (last.op = "execute" /\ last.e = NoException /\ loc # "panic") =>
        LET p == last.before.pc
            regs == [last.before.regs EXCEPT ![0] = {}]
            opcode == Field(inst, 0, 7)
            rd == Field(inst, 7, 5)
        IN CASE opcode = 99 ->
                    cpu.pc = Add(p, IF BranchTaken(regs) THEN ImmB ELSE {2})
             [] opcode = 111 -> cpu.pc = Add(p, ImmJ)
             [] opcode = 103 ->
                    /\ cpu.pc = Add(regs[Field(inst, 15, 5)],
                                    SignExtend(Shr(inst, 20), 12)) \ {0}
                    /\ rd # 0 => cpu.regs[rd] = Add(p, {2})
             [] inst \in {I_SRET, I_MRET} -> TRUE
             [] OTHER -> cpu.pc = Add(p, {2})

\* jalr t0, 3(t0) whose sum is odd, a taken backward branch, and a branch not taken
C20_Witness ==
    /\ last.op = "execute"
    /\ last.e = NoException
    /\ \/ /\ inst = EncI(3, 5, 0, 5, 103)
          /\ last.before.regs[5] = {1, 3, 5, 19, 63}
          /\ cpu.pc = {2, 3, 5, 19, 63}
          /\ cpu.regs[5] = {2, 31}
       \/ /\ inst = EncB(2..12, 6, 5, 4)
          /\ 63 \in last.before.regs[5]
          /\ 63 \notin last.before.regs[6]
          /\ cpu.pc = 2..30
       \/ /\ inst = EncB({3}, 6, 5, 6)
          /\ 63 \in last.before.regs[5]
          /\ cpu.pc = {2, 31}

\* the size / 8 bytes at addr lie inside DRAM
InsideDram(addr, size) ==
    /\ Le(DRAM_BASE, addr)
    /\ Le(addr, DRAM_END)
    /\ Le(Add(addr, W(size \div 8 - 1)), DRAM_END)

\* the DRAM bytes the model keeps that lie outside the size / 8 bytes at addr
BytesOutside(addr, size) ==
    {k \in DramWindow : k - Val(Sub(addr, DRAM_BASE)) \notin 0..(size \div 8 - 1)}

\* C17: for a width w of 8, 16, 32 or 64 and an address whose w/8 bytes lie
\* inside DRAM, Dram::store of v and then Dram::load at the same address and
\* width both succeed, the load returns v mod 2^w, and the store leaves the
\* bytes outside the range as they were.
C17_RoundTrip ==
    (/\ last.op = "load" /\ last.level = "dram"
     /\ last.prev.op = "store" /\ last.prev.level = "dram"
     /\ last.addr = last.prev.addr /\ last.size = last.prev.size
     /\ last.size \in {8, 16, 32, 64}
     /\ InsideDram(last.addr, last.size)) =>
        /\ last.prev.r = Ok({})
        /\ last.r = Ok(last.prev.value \cap 0..(last.size - 1))
        /\ \A k \in BytesOutside(last.addr, last.size) :
              last.before.dram.data[k] = last.prev.before.dram.data[k]

\* C18: a load or store of DRAM (a call of Dram::load or Dram::store, or one
\* of the bus at an address inside DRAM) whose size is not 8, 16, 32 or 64, or
\* whose bytes do not all lie inside DRAM, returns LoadAccessFault or
\* StoreAMOAccessFault with the address as its value, does not abort, and
\* leaves DRAM as it was.
C18_DramFaults ==
    (/\ last.op \in {"load", "store"}
     /\ last.level = "dram" \/ InsideDram(last.addr, 8)
     /\ last.size \notin {8, 16, 32, 64} \/ ~InsideDram(last.addr, last.size)) =>
        /\ loc # "panic"
        /\ last.r = Err(Exception(IF last.op = "load" THEN "LoadAccessFault"
                                  ELSE "StoreAMOAccessFault", last.addr))
        /\ cpu.bus.dram = last.before.dram

\* C19: a byte access of the bus at an address from DRAM_BASE up to and
\* including DRAM_END, or at a UART offset 0x00..0xFF, is not rejected; one at
\* an address in no region returns LoadAccessFault or StoreAMOAccessFault with
\* that address.
C19_BusDecoder ==
    (last.op \in {"load", "store"} /\ last.level = "bus" /\ last.size = 8) =>
        LET in_dram == Le(DRAM_BASE, last.addr) /\ Le(last.addr, DRAM_END)
            in_uart == Le(UART_BASE, last.addr) /\ Le(last.addr, Add(UART_BASE, 0..7))
            fault == Err(Exception(IF last.op = "load" THEN "LoadAccessFault"
                                   ELSE "StoreAMOAccessFault", last.addr))
        IN /\ (in_dram \/ in_uart) => last.r.tag = "Ok"
           /\ ~(in_dram \/ in_uart) => last.r = fault
(***************************************************************************)
(* Arithmetic                                                              *)
(***************************************************************************)
\* the instruction word is one of the fourteen of OP-32 and OP-IMM-32
IsWordOp(d) ==
    \/ d.opcode = 59 /\ <<d.funct3, d.funct7>> \in
           {<<0, 0>>, <<0, 1>>, <<0, 32>>, <<1, 0>>, <<4, 1>>, <<5, 0>>,
            <<5, 1>>, <<5, 32>>, <<6, 1>>, <<7, 1>>}
    \/ d.opcode = 27 /\ (d.funct3 \in {0, 1} \/ (d.funct3 = 5 /\ d.funct7 \in {0, 32}))

\* C21: a division or remainder whose divisor is zero completes without a
\* trap or an abort; div and divu with rs2 = 0 write all ones and rem and
\* remu write rs1; divw and divuw with the low 32 bits of rs2 zero write all
\* ones and remw and remuw write the sign-extended low 32 bits of rs1.
C21_DivideByZero ==
    LET d == decode_r(inst)
        a == last.before.regs[d.rs1]
        b == last.before.regs[d.rs2]
    IN /\ last.op = "execute" /\ d.opcode = 51 /\ d.funct7 = 1
          /\ d.funct3 \in 4..7 /\ b = {}
          => /\ loc = "poll"
             /\ last.e = NoException
             /\ cpu.regs[d.rd] = IF d.funct3 \in {4, 5} THEN Bits ELSE a
       /\ last.op = "execute" /\ d.opcode = 59 /\ d.funct7 = 1
          /\ d.funct3 \in 4..7 /\ And(b, 0..31) = {}
          => /\ loc = "poll"
             /\ last.e = NoException
             /\ cpu.regs[d.rd] = IF d.funct3 \in {4, 5} THEN Bits
                                 ELSE SignExtend(a, 32)

\* C22: the value an OP-32 or OP-IMM-32 instruction writes to rd is a 32-bit
\* value sign-extended (bits 63..32 equal bit 31), and it is the value the
\* instruction writes when the upper 32 bits of rs1 and rs2 are cleared.
C22_WordResults ==
    LET d == decode_r(inst)
        r == last.before.regs
        low == [cpu EXCEPT !.pc = last.before.pc,
                           !.regs = [r EXCEPT ![d.rs1] = And(r[d.rs1], 0..31),
                                              ![d.rs2] = And(r[d.rs2], 0..31)]]
    IN last.op = "execute" /\ loc = "poll" /\ IsWordOp(d)
       => /\ cpu.regs[d.rd] = SignExtend(cpu.regs[d.rd], 32)
          /\ \A x \in execute(low, inst) :
                x.tag = "Ok" /\ x.cpu.regs[d.rd] = cpu.regs[d.rd]
(***************************************************************************)
(* Illegal instructions                                                    *)
(***************************************************************************)
\* the words no arm of Cpu::execute matches: an opcode without an arm, or a
\* (funct3, funct7) pair its arm falls through on
Unsupported(w) ==
    LET d == decode_r(w)
        f == <<d.funct3, d.funct7>>
    IN \/ d.opcode \notin KnownOpcodes
       \/ d.opcode = 3 /\ d.funct3 = 7
       \/ d.opcode = 19 /\ d.funct3 = 5 /\ (d.funct7 \div 2) \notin {0, 16}
       \/ d.opcode = 27 /\ d.funct3 \notin {0, 1} /\ f \notin {<<5, 0>>, <<5, 32>>}
       \/ d.opcode = 35 /\ d.funct3 > 3
       \/ d.opcode = 47 /\ (d.funct3 \notin {2, 3} \/ (d.funct7 \div 4) \notin AmoForms)
       \/ d.opcode = 51 /\ f \notin OpForms
       \/ d.opcode = 59 /\ f \notin {<<0, 0>>, <<0, 1>>, <<0, 32>>, <<1, 0>>,
                                     <<4, 1>>, <<5, 0>>, <<5, 1>>, <<5, 32>>,
                                     <<6, 1>>, <<7, 1>>}
       \/ d.opcode = 99 /\ d.funct3 \in {2, 3}
       \/ d.opcode = 115 /\ d.funct3 = 4

\* C23: execute on a word whose (opcode, funct3, funct7) no arm matches
\* returns IllegalInstruction carrying the whole word; the driver handles it
\* as a fatal trap: the run stops with CAUSE = 2 and TVAL = the word in the
\* registers of the mode the trap entered.  No other word raises it with
\* another value.
C23_IllegalInstruction ==
    last.op = "execute" =>
        /\ Unsupported(inst) => last.e = Exception("IllegalInstruction", inst)
        /\ last.e.kind = "IllegalInstruction" =>
              /\ last.e.val = inst
              /\ is_fatal(last.e)
              /\ loc = "done"
              /\ cpu.csr[FamilyOf(cpu.mode).CAUSE] = {1}
              /\ cpu.csr[FamilyOf(cpu.mode).TVAL] = inst

\* an unmatched OP-32 word executed in User mode with the exception
\* delegated: the trap entered Supervisor mode and the run has stopped
C23_Witness ==
    /\ last.op = "execute"
    /\ inst = EncR(5, 6, 5, 0, 7, 59)
    /\ last.before.mode = User
    /\ cpu.mode = Supervisor
    /\ loc = "done"
    /\ cpu.csr[STVAL] = inst

(***************************************************************************)
(* The UART, the CLINT and the PLIC                                        *)
(***************************************************************************)
\* the step just taken was an 8-bit load of RHR
RhrRead == last.op = "load" /\ last.size = 8 /\ last.addr = UART_BASE

\* the step just taken was an 8-bit store to LSR
LsrStore == last.op = "store" /\ last.size = 8 /\ last.addr = Add(UART_BASE, {0, 2})

C26_FlagSwap ==
    /\ last.op = "is_interrupting" /\ last.r = Ok({0})
       => last.before.uart.interrupt /\ ~cpu.bus.uart.interrupt
    /\ last.op = "is_interrupting" /\ last.r = Ok({})
       => ~last.before.uart.interrupt
    /\ cpu.bus.uart.interrupt <=> last.unreturned > 0

C26_Witness ==
    /\ last.op = "is_interrupting"
    /\ last.r = Ok({0})
    /\ reader.pc = "set"

\* C27: bit 5 of LSR (transmit-empty) is 1 in every state, whatever the guest
\* loads and stores and whatever the reader does.
C27_TransmitEmpty == 5 \in cpu.bus.uart.lsr

\* C28: a UART access whose size is not 8, a CLINT access whose size is not
\* 64 and a PLIC access whose size is not 32 return LoadAccessFault (load) or
\* StoreAMOAccessFault (store) with the accessed address and change nothing:
\* not the device, not LSR.RX, not the reader's wait.
C28_WidthFaults ==
    LET wrong == CASE last.op \in {"load", "store"} -> last.size # 8
                   [] last.op \in {"clint_load", "clint_store"} -> last.size # 64
                   [] last.op \in {"plic_load", "plic_store"} -> last.size # 32
                   [] OTHER -> FALSE
        kind == IF last.op \in {"load", "clint_load", "plic_load"}
                THEN "LoadAccessFault" ELSE "StoreAMOAccessFault"
    IN wrong => /\ last.r = Err(Exception(kind, last.addr))
                /\ cpu.bus.uart = last.before.uart
                /\ cpu.bus.clint = last.before.clint
                /\ cpu.bus.plic = last.before.plic
                /\ reader = last.before.reader

C28_Witness ==
    /\ last.op = "load"
    /\ last.size = 32
    /\ last.addr = UART_BASE
    /\ reader.pc = "wait"
    /\ 0 \in cpu.bus.uart.lsr
    /\ last.r = Err(Exception("LoadAccessFault", UART_BASE))

(***************************************************************************)
(* Interrupts and the instruction stream                                   *)
(***************************************************************************)
\* C29: an interrupt is taken only at the poll that ends a tick, never in a
\* fetch or an execute; the EPC of the family it enters holds the pc the
\* poll found, which after an instruction that completed is the next pc
\* that instruction returned; sret and mret set the pc to SEPC and MEPC with
\* the two low bits cleared, so a 4-byte-aligned EPC is resumed exactly.
C29_BetweenInstructions ==
    [][/\ loc \in {"fetch", "execute"} /\ last' # last => last'.irq = "None"
       /\ loc = "poll" /\ last'.irq # "None" /\ loc' # "panic"
          => cpu'.csr[FamilyOf(cpu'.mode).EPC] = cpu.pc
       /\ loc = "execute" /\ loc' = "poll" /\ last'.e = NoException
          => \E r \in execute(cpu, inst) : r.tag = "Ok" /\ cpu'.pc = r.pc
       /\ loc = "execute" /\ loc' = "poll" /\ last'.e = NoException
          /\ inst = I_SRET => cpu'.pc = cpu.csr[SEPC] \ {0, 1}
       /\ loc = "execute" /\ loc' = "poll" /\ last'.e = NoException
          /\ inst = I_MRET => cpu'.pc = cpu.csr[MEPC] \ {0, 1}]_vars

\* an interrupt taken after a jump: EPC is the jump's target, not the word
\* after the jump
C29_Witness ==
    /\ InterruptHandled
    /\ inst = I_JAL_X1
    /\ last.e = NoException
    /\ cpu.csr[FamilyOf(cpu.mode).EPC] = last.before.pc
    /\ cpu.pc # last.before.pc

\* the execute step on inst is one that can unmask interrupts: an xRET or a
\* Zicsr instruction
Unmasks(w) == w \in {I_SRET, I_MRET} \/ (decode_r(w).opcode = 115 /\ decode_r(w).funct3 # 0)

\* C30: right after handle_exception or handle_interrupt a call of
\* check_pending_interrupt returns none; the poll of a tick whose instruction
\* raised a non-fatal exception returns none and leaves the pc, the mode and
\* the CSRs (EPC and CAUSE among them) as the exception wrote them; a masked
\* hart becomes unmasked only by executing an xRET or a Zicsr instruction.
C30_MaskedAfterTrap ==
    /\ []((ExceptionHandled \/ InterruptHandled)
              => check_pending_interrupt(cpu).irq = "None")
    /\ [](last.op = "poll" /\ last.e.kind # "None"
              => /\ last.irq = "None"
                 /\ cpu.csr = last.before.csr
                 /\ cpu.pc = last.before.pc
                 /\ cpu.mode = last.before.mode)
    /\ [][GloballyMasked(cpu) /\ ~GloballyMasked(cpu')
              => loc = "execute" /\ Unmasks(inst)]_vars

\* the poll after an ecall from User mode, the UART flag raised and an
\* interrupt enabled and pending: none is taken
C30_Witness ==
    /\ last.op = "poll"
    /\ last.e.kind = "EnvironmentCallFromUMode"
    /\ last.irq = "None"
    /\ last.before.bus.uart.interrupt
    /\ cpu.csr[MIE] \cap cpu.csr[MIP] # {}

(***************************************************************************)
(* Device loads                                                            *)
(***************************************************************************)
\* C38: a device load of width w that succeeds returns a value below 2^w,
\* whatever was stored before: an 8-bit UART load, a 64-bit CLINT load and a
\* 32-bit PLIC load after a 32-bit store of a register with upper bits set.
C38_LoadWidth ==
    last.op \in {"load", "clint_load", "plic_load"} /\ last.r.tag = "Ok"
        => last.r.v \subseteq 0..(last.size - 1)

\* the step just taken was an 8-bit load of LSR
LsrRead == last.op = "load" /\ last.size = 8 /\ last.addr = Add(UART_BASE, {0, 2})

\* before the step just taken, is_interrupting had returned true for the
\* byte in RHR and the guest had not loaded that byte: the reader had stored
\* the flag for it, the flag was clear, and RHR was not loaded since the write
TakenUnread ==
    /\ last.written > 0
    /\ last.before.reader.pc # "flag"
    /\ ~last.before.uart.interrupt
    /\ ~last.before.read_since

WalkEntry(a, i) == last.mem[a \cup And(Shr(last.addr, 9 * i + 9), 3..11)]

\* V = 0, or R = 0 and W = 1
PteFaults(pte) == 0 \notin pte \/ (1 \notin pte /\ 2 \in pte)

\* R = 1 or X = 1
PteLeaf(pte) == 1 \in pte \/ 3 \in pte

\* ((pte >> 10) & mask44) << 12
PteNext(pte) == {b + 2 : b \in pte \cap 10..53}

\* the bits of w in lo..hi, moved up by k
Part(w, lo, hi, k) == {b + k : b \in w \cap lo..hi}

\* the result the walk has at the entry pte of level i, its table read
WalkResult(pte, i) ==
    LET fault == Err(PageFault(last.access_type, last.addr))
        offset == last.addr \cap 0..11
    IN CASE PteFaults(pte) -> {fault}
         [] PteLeaf(pte) /\ i = 0 -> {Ok(PteNext(pte) \cup offset)}
         [] PteLeaf(pte) /\ i = 1 ->
              {Ok(Part(pte, 28, 53, 2) \cup Part(pte, 19, 27, 2)
                    \cup (last.addr \cap 12..20) \cup offset)}
         [] PteLeaf(pte) /\ i = 2 ->
              {Ok(Part(pte, 28, 53, 2) \cup (last.addr \cap 12..29) \cup offset)}
         [] i = 0 -> {fault}
         [] OTHER -> {}

C36_MulHigh ==
    last.op = "execute" /\ last.e = NoException =>
        LET a == last.before.regs[5]
            b == last.before.regs[6]
        IN /\ inst = EncR(1, 6, 5, 1, 7, 51)
              => cpu.regs[7] = High64(Mul128(AsI64AsI128(a), AsI64AsI128(b)))
           /\ inst = EncR(1, 6, 5, 2, 7, 51)
              => cpu.regs[7] = High64(Mul128(AsI64AsI128(a), b))
           /\ inst = EncR(1, 6, 5, 3, 7, 51)
              => cpu.regs[7] = High64(Mul128(a, b))
           /\ inst = EncR(1, 6, 5, 0, 7, 59)
              => cpu.regs[7] = SignExtend(Mul(And(a, 0..31), And(b, 0..31)), 32)

(***************************************************************************)
(* Trap entry and trap return                                              *)
(***************************************************************************)
\* the step just taken executed the return instruction of the mode it was
\* in (mret in Machine mode, sret in Supervisor mode), and the instruction
\* fetched before it, or its own first fetch, raised an exception at a
\* 4-byte-aligned pc
ReturnedFromTrap ==
    /\ last.op = "execute"
    /\ last.e = NoException
    /\ \/ last.before.mode = Machine /\ inst = I_MRET
       \/ last.before.mode = Supervisor /\ inst = I_SRET
    /\ last.trap.fetch = fetches - 1
    /\ last.trap.pc \cap {0, 1} = {}

\* C31: an exception at an aligned pc p in mode m, handled in mode T and
\* followed directly by T's return instruction, leaves the hart in mode m at
\* pc p with T's interrupt-enable bit (MSTATUS.MIE for Machine, SSTATUS.SIE
\* for Supervisor) as it was before the exception.
C31_TrapRoundTrip ==
    ReturnedFromTrap =>
        LET ie == IF last.before.mode = Machine THEN 3 ELSE 1 IN
        /\ cpu.mode = last.trap.mode
        /\ cpu.pc = last.trap.pc
        /\ (ie \in cpu.csr[MSTATUS]) <=> (ie \in last.trap.status)

\* an ecall in User mode with MIE set and MPIE clear, taken to Machine mode
\* and returned from by mret
C31_Witness ==
    /\ ReturnedFromTrap
    /\ inst = I_MRET
    /\ last.trap.mode = User
    /\ 3 \in last.trap.status
    /\ 7 \notin last.trap.status
    /\ cpu.mode = User

\* C32: a trap does not lower the mode: after handle_exception and after
\* handle_interrupt the mode is at least the mode before, and a trap taken
\* in Machine mode stays in Machine mode whatever MEDELEG and MIDELEG hold.
C32_NoLowering ==
    ExceptionHandled \/ InterruptHandled =>
        /\ cpu.mode >= last.before.mode
        /\ last.before.mode = Machine => cpu.mode = Machine

\* an interrupt taken in Machine mode with its cause delegated
C32_Witness ==
    /\ InterruptHandled
    /\ last.before.mode = Machine
    /\ InterruptCode(last.irq) \in last.before.csr[MIDELEG]
    /\ cpu.mode = Machine

(***************************************************************************)
(* The atomic memory operations                                            *)
(***************************************************************************)
\* the instruction just executed is an AMO word that did not trap, with paging
\* off and s0 at a cell whose bytes the model keeps
AmoDone ==
    /\ last.op = "execute"
    /\ loc = "poll"
    /\ last.e.kind = "None"
    /\ decode_r(inst).opcode = 47
    /\ ~cpu.enable_paging
    /\ last.before.regs[8] \in {AmoDram, CLINT_MTIMECMP}

\* the cell at the address in s0, as wide as the instruction
AmoCell(bus, addr, width) ==
    IF addr = CLINT_MTIMECMP THEN bus.clint.mtimecmp
    ELSE UNION {Shl(W(bus.dram.data[Val(Sub(addr, DRAM_BASE)) + i]), 8 * i)
                : i \in 0..(width \div 8 - 1)}

\* op(t, rs2) of the instruction set: the .w forms work on the low 32 bits
AmoOp(width, funct5, t, rs2) ==
    LET low == IF width = 32 THEN 0..31 ELSE Bits
        a == And(t, low)
        b == And(rs2, low)
        as == SignExtend(a, width)
        bs == SignExtend(b, width)
    IN And(CASE funct5 = 0 -> Add(a, b)
             [] funct5 = 1 -> b
             [] funct5 = 4 -> (a \ b) \cup (b \ a)
             [] funct5 = 8 -> a \cup b
             [] funct5 = 12 -> a \cap b
             [] funct5 = 16 -> IF SLt(as, bs) THEN a ELSE b
             [] funct5 = 20 -> IF SLt(as, bs) THEN b ELSE a
             [] funct5 = 24 -> IF Lt(a, b) THEN a ELSE b
             [] funct5 = 28 -> IF Lt(a, b) THEN b ELSE a, low)

\* the forms of C35 that hold: every one but amominu.w and amomaxu.w
AmoHolds(funct3, funct5) == ~(funct3 = 2 /\ funct5 \in {24, 28})

AmoPattern(forms(_, _)) ==
    AmoDone =>
        LET d == decode_r(inst)
            funct5 == d.funct7 \div 4
            width == IF d.funct3 = 2 THEN 32 ELSE 64
            addr == last.before.regs[8]
            t == AmoCell(last.before.bus, addr, width)
            now == AmoCell(cpu.bus, addr, width)
        IN forms(d.funct3, funct5) =>
            CASE funct5 = 2 -> cpu.regs[7] = t /\ now = t
              [] funct5 = 3 ->
                    /\ now = And(last.before.regs[6], IF width = 32 THEN 0..31 ELSE Bits)
                    /\ cpu.regs[7] = last.before.regs[7]
              [] OTHER ->
                    /\ now = AmoOp(width, funct5, t, last.before.regs[6])
                    /\ cpu.regs[7] = t

AmoAllForms(funct3, funct5) == TRUE

\* C35: every AMO other than LR and SC loads t from the address in rs1,
\* stores op(t, rs2) there and writes t to rd; for the .w width op works on
\* the loaded word and the low 32 bits of rs2 (min/max signed, minu/maxu
\* unsigned), so the upper 32 bits of rs2 never change the operand stored.
\* LR only loads into rd; SC stores rs2 and leaves rd unchanged.
C35_AmoPattern == AmoPattern(AmoAllForms)

\* the same for every form but amominu.w and amomaxu.w
AmoPatternElsewhere == AmoPattern(AmoHolds)

(***************************************************************************)
(* Traps and partial effects                                               *)
(***************************************************************************)
\* the AMO words with a load half and a store half
AmoBoth(w) ==
    LET d == decode_r(w)
    IN d.opcode = 47 /\ d.funct3 \in {2, 3} /\ (d.funct7 \div 4) \in AmoForms \ {2, 3}

DiskBuffer(bus, i) == bus.dram.data[Val(Sub(AmoDram, DRAM_BASE)) + i]

\* C37: one disk transaction processes one descriptor chain.  No read of a
\* field of the queue that lies in DRAM aborts it; with iotype = 1 the disk
\* holds the len bytes of the buffer from sector * 512 on and guest memory
\* is unchanged but for the used ring's idx; with iotype = 0 the buffer holds
\* the len bytes of the disk and the disk image is unchanged; the used
\* ring's idx is stored as get_new_id() mod 8.
C37_DiskTransaction ==
    last.op = "disk_access" =>
        /\ \A k \in 1..Len(last.failed) : BusRegion(last.failed[k]) # "dram"
        /\ last.tag = "Ok" =>
            /\ last.v.id = last.before.v.id + 1
            /\ last.used = [addr |-> Add(last.v.desc_addr, {1, 12}),
                            value |-> W(last.v.id % 8)]
            /\ last.chain.addr1 = AmoDram =>
                 LET at(i) == Val(DiskIndex(last.chain, i))
                     len == Val(last.chain.len1)
                 IN IF last.chain.iotype = VIRTIO_BLK_T_OUT
                    THEN /\ \A i \in 0..(len - 1) :
                                last.v.disk[at(i)] = DiskBuffer(cpu.bus, i)
                         /\ cpu.bus = last.before.bus
                    ELSE /\ \A i \in 0..(len - 1) :
                                DiskBuffer(cpu.bus, i) = last.v.disk[at(i)]
                         /\ last.v.disk = last.before.v.disk

====
